---------------------------- MODULE Spec2Model ----------------------------
(***************************************************************************)
(* Model of the indicator and backtest engine of finbytes-trading-chat     *)
(* (src/finbytes/backtest_engine.py, src/finbytes/analysis_engine.py):     *)
(* the constructors, the indicator methods of AnalysisEngine,              *)
(* BacktestEngine.simple_backtest with its helpers and the strategy        *)
(* methods built on it, as a state machine whose operations are calls on   *)
(* one engine instance.  Spec and SpecPositive run simple_backtest on      *)
(* every signal stream (SpecTick on prices a tick apart), SpecStrategy the *)
(* strategy methods, SpecCustom custom_strategy_backtest, SpecIndicators   *)
(* the indicator methods, SpecLevels find_support_resistance, SpecEngine   *)
(* construction followed by any call.  The service around the engines has  *)
(* its own specifications: SpecApi the /analyze endpoint of src/api.py     *)
(* under concurrent requests, SpecTrader TraderCodeAct.analyze and its     *)
(* temporary file, SpecClient CodeActAPIClient.run_interactive.            *)
(*                                                                         *)
(* Numbers.  The code computes in IEEE-754 doubles through pandas/numpy.   *)
(* A value is modelled as a pair <<n, d>>: for d > 0 the exact rational    *)
(* n/d in lowest terms, and for d = 0 the three special values of the      *)
(* floating-point domain: <<0,0>> is NaN (pandas' missing value),          *)
(* <<1,0>> is +inf and <<-1,0>> is -inf.  Rounding error of the binary     *)
(* representation and the sign of zero are not modelled.                   *)
(***************************************************************************)
EXTENDS Integers, Sequences, FiniteSets, TLC

(***************************************************************************)
(* Bounds of the model.                                                    *)
(***************************************************************************)
MaxBars == 4

(* Default of the constructor parameter initial_capital. *)
DefaultCapital == 10000
(* Trading periods per year used to annualise the Sharpe ratio. *)
PeriodsPerYear == 252

(***************************************************************************)
(* Floating-point values.                                                  *)
(***************************************************************************)
RECURSIVE GCD(_, _)
GCD(a, b) == IF b = 0 THEN a ELSE GCD(b, a % b)

Abs(a) == IF a < 0 THEN -a ELSE a
Sgn(a) == IF a < 0 THEN -1 ELSE IF a > 0 THEN 1 ELSE 0

NaN == <<0, 0>>
PosInf == <<1, 0>>
NegInf == <<-1, 0>>

(* n/d for d # 0, in lowest terms with a positive denominator. *)
Norm(n, d) ==
    LET g == GCD(Abs(n), Abs(d))
    IN  IF d < 0 THEN <<(-n) \div g, (-d) \div g>> ELSE <<n \div g, d \div g>>

Num(i) == <<i, 1>>
Zero == <<0, 1>>
One == <<1, 1>>

IsNaN(x) == x = NaN
IsFinite(x) == x[2] # 0
IsInf(x) == x[2] = 0 /\ x[1] # 0
IsZero(x) == x[2] # 0 /\ x[1] = 0

Neg(x) == <<-x[1], x[2]>>

Add(x, y) ==
    IF IsNaN(x) \/ IsNaN(y) THEN NaN
    ELSE IF IsInf(x) /\ IsInf(y) THEN (IF x = y THEN x ELSE NaN)
    ELSE IF IsInf(x) THEN x
    ELSE IF IsInf(y) THEN y
    ELSE Norm(x[1] * y[2] + y[1] * x[2], x[2] * y[2])

Sub(x, y) == Add(x, Neg(y))

Mul(x, y) ==
    IF IsNaN(x) \/ IsNaN(y) THEN NaN
    ELSE IF IsInf(x) \/ IsInf(y)
         THEN (IF IsZero(x) \/ IsZero(y) THEN NaN
               ELSE <<Sgn(x[1]) * Sgn(y[1]), 0>>)
    ELSE Norm(x[1] * y[1], x[2] * y[2])

Div(x, y) ==
    IF IsNaN(x) \/ IsNaN(y) THEN NaN
    ELSE IF IsInf(y) THEN (IF IsInf(x) THEN NaN ELSE Zero)
    ELSE IF IsZero(y) THEN (IF IsZero(x) THEN NaN ELSE <<Sgn(x[1]), 0>>)
    ELSE IF IsInf(x) THEN <<Sgn(x[1]) * Sgn(y[1]), 0>>
    ELSE Norm(x[1] * y[2], x[2] * y[1])

(* Comparisons are false as soon as one side is NaN. *)
Lt(x, y) ==
    /\ ~IsNaN(x)
    /\ ~IsNaN(y)
    /\ IF IsFinite(x) /\ IsFinite(y) THEN x[1] * y[2] < y[1] * x[2]
       ELSE IF IsInf(x) /\ IsInf(y) THEN x[1] < y[1]
       ELSE IF IsInf(x) THEN x[1] < 0
       ELSE y[1] > 0
Gt(x, y) == Lt(y, x)
Le(x, y) == ~IsNaN(x) /\ ~IsNaN(y) /\ ~Lt(y, x)
Ge(x, y) == Le(y, x)

AbsNum(x) == <<Abs(x[1]), x[2]>>

(* round(x, 2): to the nearest multiple of 0.01, ties to the even one;     *)
(* NaN and the infinities are returned unchanged.                          *)
Round2(x) ==
    IF ~IsFinite(x) THEN x
    ELSE LET m == 100 * x[1]
             q == m \div x[2]
             r == m % x[2]
             k == IF 2 * r < x[2] THEN q
                  ELSE IF 2 * r > x[2] THEN q + 1
                  ELSE IF q % 2 = 0 THEN q ELSE q + 1
         IN  Norm(k, 100)

(***************************************************************************)
(* pandas Series operations used by the engine.  A Series is a sequence    *)
(* of values, one per bar; bar i of the code (0-based) is element i+1.     *)
(***************************************************************************)

(* signals.replace(0, np.nan) *)
ReplaceZeroByNaN(s) == [i \in 1..Len(s) |-> IF s[i] = 0 THEN NaN ELSE Num(s[i])]

(* Series.ffill(): a missing value takes the last value before it, if any. *)
RECURSIVE FfillFrom(_, _, _)
FfillFrom(s, i, last) ==
    IF i > Len(s) THEN <<>>
    ELSE IF IsNaN(s[i]) THEN <<last>> \o FfillFrom(s, i + 1, last)
    ELSE <<s[i]>> \o FfillFrom(s, i + 1, s[i])
Ffill(s) == FfillFrom(s, 1, NaN)

(* Series.fillna(0) *)
Fillna0(s) == [i \in 1..Len(s) |-> IF IsNaN(s[i]) THEN Zero ELSE s[i]]

(* Series.shift(1): the first entry has no predecessor and is missing. *)
Shift1(s) == [i \in 1..Len(s) |-> IF i = 1 THEN NaN ELSE s[i - 1]]

(* Series.pct_change(): price[i] / price[i-1] - 1, missing at the first bar. *)
PctChange(p) ==
    [i \in 1..Len(p) |-> IF i = 1 THEN NaN
                         ELSE Sub(Div(Num(p[i]), Num(p[i - 1])), One)]

SeriesMul(a, b) == [i \in 1..Len(a) |-> Mul(a[i], b[i])]
SeriesAddScalar(c, a) == [i \in 1..Len(a) |-> Add(c, a[i])]
SeriesMulScalar(a, c) == [i \in 1..Len(a) |-> Mul(a[i], c)]

(* Series.cumprod() with skipna: a missing entry stays missing in the      *)
(* output and is left out of the running product.                          *)
RECURSIVE CumProdFrom(_, _, _)
CumProdFrom(s, i, acc) ==
    IF i > Len(s) THEN <<>>
    ELSE IF IsNaN(s[i]) THEN <<NaN>> \o CumProdFrom(s, i + 1, acc)
    ELSE <<Mul(acc, s[i])>> \o CumProdFrom(s, i + 1, Mul(acc, s[i]))
CumProd(s) == CumProdFrom(s, 1, One)

(* The entries of a Series that are not missing, in order. *)
DropNa(s) == SelectSeq(s, LAMBDA x : ~IsNaN(x))

RECURSIVE SeqSum(_)
SeqSum(s) == IF s = <<>> THEN Zero ELSE Add(s[1], SeqSum(Tail(s)))

(* Series.mean() with skipna: missing when no entry is present. *)
MeanOf(v) == IF v = <<>> THEN NaN ELSE Div(SeqSum(v), Num(Len(v)))
Mean(s) == MeanOf(DropNa(s))

(* Square of Series.std() (sample variance, ddof = 1) with skipna:         *)
(* missing when fewer than two entries are present.                        *)
Square(x) == Mul(x, x)
SquaredDeviations(v, m) == [i \in 1..Len(v) |-> Square(Sub(v[i], m))]
VarOf(v) ==
    IF Len(v) < 2 THEN NaN
    ELSE Div(SeqSum(SquaredDeviations(v, MeanOf(v))), Num(Len(v) - 1))
Var(s) == VarOf(DropNa(s))

(* Series.expanding().max(): the maximum of the entries present so far,    *)
(* missing while there is none.                                            *)
RECURSIVE ExpandingMaxFrom(_, _, _)
ExpandingMaxFrom(s, i, best) ==
    IF i > Len(s) THEN <<>>
    ELSE IF IsNaN(s[i]) THEN <<best>> \o ExpandingMaxFrom(s, i + 1, best)
    ELSE IF IsNaN(best) \/ Gt(s[i], best)
         THEN <<s[i]>> \o ExpandingMaxFrom(s, i + 1, s[i])
    ELSE <<best>> \o ExpandingMaxFrom(s, i + 1, best)
ExpandingMax(s) == ExpandingMaxFrom(s, 1, NaN)

(* Series.min() with skipna: missing when no entry is present. *)
RECURSIVE FoldMin(_, _, _)
FoldMin(v, i, best) ==
    IF i > Len(v) THEN best
    ELSE IF Lt(v[i], best) THEN FoldMin(v, i + 1, v[i])
    ELSE FoldMin(v, i + 1, best)
RECURSIVE FoldMax(_, _, _)
FoldMax(v, i, best) ==
    IF i > Len(v) THEN best
    ELSE IF Gt(v[i], best) THEN FoldMax(v, i + 1, v[i])
    ELSE FoldMax(v, i + 1, best)

MinOf(v) == IF v = <<>> THEN NaN ELSE FoldMin(v, 2, v[1])
SeriesMin(s) == MinOf(DropNa(s))

(* Python's built-in max(iterable, default=0) and min(iterable,            *)
(* default=0): the first item, replaced by a later one only when the       *)
(* comparison with it is true.                                             *)
PyMax(s) == IF s = <<>> THEN Zero ELSE FoldMax(s, 2, s[1])
PyMin(s) == IF s = <<>> THEN Zero ELSE FoldMin(s, 2, s[1])

(***************************************************************************)
(* The state: the caller's DataFrame, the module flag TA_AVAILABLE, the     *)
(* engine built from the frame (its class, the columns of its copy         *)
(* self.df, self.initial_capital), and the call in progress: its name and  *)
(* parameters, the signals it runs on and the value it returned.  The      *)
(* Close column of self.df is both the entry and the exit price of every   *)
(* backtest call in the repository.                                        *)
(***************************************************************************)
VARIABLES
    df,               \* the caller's DataFrame: its columns and their values
    ta_available,     \* TA_AVAILABLE: whether `import ta` succeeded
    engine,           \* "none", "AnalysisEngine" or "BacktestEngine"
    open,             \* self.df['Open']
    high,             \* self.df['High']
    low,              \* self.df['Low']
    close,            \* self.df['Close'], one price per bar
    volume,           \* self.df['Volume']
    initial_capital,  \* self.initial_capital
    pc,               \* "new": no engine yet; "ready": no call in progress;
                      \* "done": a call returned; "failed": a call raised
    call,             \* the name and parameters of the last call
    signals,          \* the signals the last backtest call ran on
    result,           \* <<>> or <<d>>, d what the last call returned or raised
    codeact_available, \* api.py: CODEACT_AVAILABLE
    environment,      \* what TraderCodeAct() finds: packages, CODEACT_API_BASE
    trader_agent,     \* api.py: _trader_agent, None or an instance
    simple_trader,    \* api.py: _simple_trader, None or an instance
    instances,        \* the trader instances constructed so far, by class
    requests,         \* the /analyze requests: position, trader, response
    platform,         \* os.name of the host: "posix" or "nt"
    files,            \* the temporary files present in the temp directory
    analysis,         \* the calls of TraderCodeAct.analyze made so far
    session           \* the call of CodeActAPIClient.run_interactive

frame == <<open, high, low, close, volume>>
enginevars == <<df, ta_available, engine, frame, initial_capital, pc, call, signals, result>>
service == <<codeact_available, environment, trader_agent, simple_trader, instances,
             requests, platform, files, analysis, session>>
vars == <<enginevars, service>>

None == <<>>

(* The web service and the CodeAct agent before anything has used them.    *)
(* The specifications of the engines leave them there.                     *)
NoService ==
    /\ codeact_available = FALSE
    /\ environment = None
    /\ trader_agent = None
    /\ simple_trader = None
    /\ instances = <<>>
    /\ requests = <<>>
    /\ platform = "posix"
    /\ files = {}
    /\ analysis = <<>>
    /\ session = None

(* The OHLCV bar of a close price: the bar opens at its close, trades up   *)
(* to one unit above it, and its volume is one more than the price.        *)
Required == <<"Open", "High", "Low", "Close", "Volume">>
Column(name, c) ==
    [i \in 1..Len(c) |->
        CASE name = "High" -> c[i] + 1
          [] name = "Volume" -> c[i] + 1
          [] OTHER -> c[i]]
(* A DataFrame with the given columns, one row per close price. *)
DataFrame(columns, c) ==
    [columns |-> columns, data |-> [name \in columns |-> Column(name, c)]]
AllColumns == {Required[k] : k \in 1..Len(Required)}

(* Price levels of a bar: zero, a unit price and its triple, so that price  *)
(* ratios include divisions by zero and percentages that do not end after  *)
(* two decimals.                                                           *)
Prices == {0, 1, 3}
Signal == {-1, 0, 1}
SeqsOfLen(S, n) == [1..n -> S]
Histories == UNION {SeqsOfLen(Prices, n) : n \in 1..MaxBars}
InitialCapitals == {DefaultCapital, 1}

(***************************************************************************)
(* simple_backtest, line 65: the held position.                            *)
(***************************************************************************)
Positions(sig) == Fillna0(Ffill(ReplaceZeroByNaN(sig)))

(* simple_backtest, lines 68-69. *)
Returns(exit_price) == PctChange(exit_price)
(* StrategyReturns without the shift: the position of a bar earns the     *)
(* return of the same bar.                                                 *)
StrategyReturnsNoLag(positions, returns) == SeriesMul(positions, returns)
StrategyReturns(positions, returns) == SeriesMul(Shift1(positions), returns)

(* simple_backtest, line 72. *)
EquityCurve(strategy_returns, capital) ==
    SeriesMulScalar(CumProd(SeriesAddScalar(One, strategy_returns)), Num(capital))

(* simple_backtest, line 75. *)
TotalReturn(equity, capital) ==
    Mul(Sub(Div(equity[Len(equity)], Num(capital)), One), Num(100))

(***************************************************************************)
(* _calculate_trades: one pass over the positions; LoopState is the        *)
(* function's local state and TradeStep the body of its loop for bar i     *)
(* (0-based bar i - 1).                                                    *)
(***************************************************************************)
LoopInit ==
    [trades |-> <<>>, in_position |-> FALSE, entry_idx |-> None,
     entry_price_val |-> None]

(* Pnl taken relative to the exit price. *)
PnlOverExit(entry_price_val, exit_price_val) ==
    Mul(Div(Sub(exit_price_val, entry_price_val), exit_price_val), Num(100))
(* Lines 257-258. *)
Pnl(entry_price_val, exit_price_val) ==
    Mul(Div(Sub(exit_price_val, entry_price_val), entry_price_val), Num(100))
PnlAmount(entry_price_val, exit_price_val) == Sub(exit_price_val, entry_price_val)

(* Lines 265-277: the record appended for an exit at bar i. *)
TradeRecord(number, entry_idx, entry_price_val, i, exit_price_val, pnl) ==
    [trade_number |-> number,
     entry_price |-> Round2(entry_price_val),
     exit_price |-> Round2(exit_price_val),
     entry_idx |-> entry_idx,
     exit_idx |-> i - 1,
     pnl_pct |-> Round2(pnl),
     pnl_amount |-> Round2(PnlAmount(entry_price_val, exit_price_val)),
     duration_periods |-> IF entry_idx # None THEN (i - 1) - entry_idx[1] ELSE 0,
     win |-> Gt(pnl, Zero)]

(* The record numbered by the bar of its exit. *)
MakeTradeNumberedByBar(st, i, exit_price) ==
    TradeRecord(i, st.entry_idx, st.entry_price_val, i,
                Num(exit_price[i]), Pnl(st.entry_price_val, Num(exit_price[i])))
MakeTrade(st, i, exit_price) ==
    TradeRecord(Len(st.trades) + 1, st.entry_idx, st.entry_price_val, i,
                Num(exit_price[i]), Pnl(st.entry_price_val, Num(exit_price[i])))

(* TradeStep with the entry taken again on every bar whose position is 1. *)
TradeStepReenter(st, i, positions, entry_price, exit_price) ==
    IF positions[i] = One
    THEN [st EXCEPT !.in_position = TRUE,
                    !.entry_idx = <<i - 1>>,
                    !.entry_price_val = Num(entry_price[i])]
    ELSE IF positions[i] = Neg(One) /\ st.in_position
    THEN [st EXCEPT !.trades = Append(@, MakeTrade(st, i, exit_price)),
                    !.in_position = FALSE]
    ELSE st

(* TradeStep with the position left open after an exit. *)
TradeStepNoReset(st, i, positions, entry_price, exit_price) ==
    IF positions[i] = One /\ ~st.in_position
    THEN [st EXCEPT !.in_position = TRUE,
                    !.entry_idx = <<i - 1>>,
                    !.entry_price_val = Num(entry_price[i])]
    ELSE IF positions[i] = Neg(One) /\ st.in_position
    THEN [st EXCEPT !.trades = Append(@, MakeTrade(st, i, exit_price))]
    ELSE st

TradeStep(st, i, positions, entry_price, exit_price) ==
    IF positions[i] = One /\ ~st.in_position
    THEN [st EXCEPT !.in_position = TRUE,
                    !.entry_idx = <<i - 1>>,
                    !.entry_price_val = Num(entry_price[i])]
    ELSE IF positions[i] = Neg(One) /\ st.in_position
    THEN [st EXCEPT !.trades = Append(@, MakeTrade(st, i, exit_price)),
                    !.in_position = FALSE]
    ELSE st

(* The loop of line 246 from bar i to bar last, started in state st. *)
RECURSIVE TradeLoop(_, _, _, _, _, _)
TradeLoop(st, i, last, positions, entry_price, exit_price) ==
    IF i > last THEN st
    ELSE TradeLoop(TradeStep(st, i, positions, entry_price, exit_price), i + 1,
                   last, positions, entry_price, exit_price)

CalculateTrades(positions, entry_price, exit_price) ==
    TradeLoop(LoopInit, 1, Len(positions), positions, entry_price, exit_price).trades

(***************************************************************************)
(* _calculate_sharpe.  The returned value is sqrt(252) * mean / std; it is *)
(* kept as the pair of the mean and the variance (std squared) it is made  *)
(* of, the early return 0.0 being mean 0 over variance 1.                  *)
(***************************************************************************)
SharpeOf(returns, variance) ==
    IF Len(returns) = 0 \/ IsZero(variance)
    THEN [mean |-> Zero, var |-> One]
    ELSE [mean |-> Mean(SeriesAddScalar(Neg(Div(Zero, Num(PeriodsPerYear))), returns)),
          var |-> variance]
CalculateSharpe(returns) == SharpeOf(returns, Var(returns))

(* The kind of number sqrt(252) * mean / sqrt(var) is. *)
SharpeKind(s) ==
    IF IsNaN(s.mean) \/ IsNaN(s.var) \/ Lt(s.var, Zero) THEN "nan"
    ELSE IF IsInf(s.var) THEN (IF IsInf(s.mean) THEN "nan" ELSE "zero")
    ELSE IF IsZero(s.var) THEN (IF IsZero(s.mean) THEN "nan" ELSE "inf")
    ELSE IF IsInf(s.mean) THEN "inf"
    ELSE IF IsZero(s.mean) THEN "zero"
    ELSE "finite"

(* A drawdown left as an amount of equity, not divided by the running      *)
(* maximum: what _calculate_max_drawdown must not compute.                 *)
DrawdownAbsolute(equity, running_max) ==
    [i \in 1..Len(equity) |-> Mul(Sub(equity[i], running_max[i]), Num(100))]

(* _calculate_max_drawdown *)
Drawdown(equity, running_max) ==
    [i \in 1..Len(equity) |->
        Mul(Div(Sub(equity[i], running_max[i]), running_max[i]), Num(100))]
CalculateMaxDrawdown(equity) ==
    IF Len(equity) = 0 THEN Zero
    ELSE AbsNum(SeriesMin(Drawdown(equity, ExpandingMax(equity))))

(* _calculate_win_rate *)
CalculateWinRate(trades) ==
    IF Len(trades) = 0 THEN Zero
    ELSE Mul(Div(Num(Len(SelectSeq(trades, LAMBDA t : t.win))), Num(Len(trades))),
             Num(100))

PnlPcts(trades) == [i \in 1..Len(trades) |-> trades[i].pnl_pct]

(* simple_backtest, lines 87-95: the additional trade statistics. *)
WinningTrades(trades) == SelectSeq(trades, LAMBDA t : t.win)
LosingTrades(trades) == SelectSeq(trades, LAMBDA t : ~t.win)
(* sum(t['pnl_pct'] for t in subset) / len(subset) if subset else 0 *)
AvgPnl(subset) ==
    IF subset # <<>> THEN Div(SeqSum(PnlPcts(subset)), Num(Len(subset))) ELSE Zero
AvgWin(trades) == IF trades # <<>> THEN AvgPnl(WinningTrades(trades)) ELSE Zero
AvgLoss(trades) == IF trades # <<>> THEN AvgPnl(LosingTrades(trades)) ELSE Zero
LargestWin(trades) == IF trades # <<>> THEN PyMax(PnlPcts(trades)) ELSE Zero
LargestLoss(trades) == IF trades # <<>> THEN PyMin(PnlPcts(trades)) ELSE Zero

(***************************************************************************)
(* simple_backtest: the dictionary returned for the given signals.         *)
(***************************************************************************)
ResultDict(strategy_returns, equity, trades, capital) ==
        [total_return_pct |-> TotalReturn(equity, capital),
         sharpe |-> CalculateSharpe(strategy_returns),
         max_dd_pct |-> CalculateMaxDrawdown(equity),
         trades |-> Len(trades),
         win_rate_pct |-> CalculateWinRate(trades),
         equity_curve |-> equity,
         returns |-> strategy_returns,
         trades_detail |-> trades,
         final_equity |-> equity[Len(equity)],
         avg_win_pct |-> Round2(AvgWin(trades)),
         avg_loss_pct |-> Round2(AvgLoss(trades)),
         largest_win_pct |-> Round2(LargestWin(trades)),
         largest_loss_pct |-> Round2(LargestLoss(trades)),
         winning_trades |-> IF trades # <<>> THEN Len(WinningTrades(trades)) ELSE 0,
         losing_trades |-> IF trades # <<>> THEN Len(LosingTrades(trades)) ELSE 0]

BacktestOf(positions, strategy_returns, entry_price, exit_price, capital) ==
    ResultDict(strategy_returns, EquityCurve(strategy_returns, capital),
               CalculateTrades(positions, entry_price, exit_price), capital)

BacktestFrom(positions, entry_price, exit_price, capital) ==
    BacktestOf(positions, StrategyReturns(positions, Returns(exit_price)),
               entry_price, exit_price, capital)

SimpleBacktestResult(sig, entry_price, exit_price, capital) ==
    BacktestFrom(Positions(sig), entry_price, exit_price, capital)

(***************************************************************************)
(* The state machine: an engine constructed on a non-empty price history   *)
(* serves calls of simple_backtest one after the other.  A call leaves     *)
(* behind the value it returned or the exception it raised.                *)
(***************************************************************************)
Raised(exception) == [raised |-> exception]

(* A call of simple_backtest on the engine's own prices; on a history of   *)
(* zero bars equity.iloc[-1] raises IndexError.                            *)
SimpleBacktestCall(sig) ==
    IF Len(close) = 0 THEN Raised("IndexError")
    ELSE SimpleBacktestResult(sig, close, close, initial_capital)

(* BacktestEngine.__init__ on a frame that has every required column: the  *)
(* engine holds a copy of the frame.  (The AnalysisEngine inside it holds  *)
(* a copy of that copy; the two are equal from construction on and are     *)
(* kept as one.)                                                           *)
Constructed(class, c) ==
    /\ df = DataFrame(AllColumns, c)
    /\ engine = class
    /\ open = df.data["Open"]
    /\ high = df.data["High"]
    /\ low = df.data["Low"]
    /\ close = df.data["Close"]
    /\ volume = df.data["Volume"]
    /\ pc = "ready"
    /\ call = None
    /\ signals = <<>>
    /\ result = <<>>

Init ==
    /\ \E c \in Histories : Constructed("BacktestEngine", c)
    /\ ta_available = FALSE
    /\ initial_capital \in InitialCapitals
    /\ NoService

(* A call of simple_backtest(signals) with the default prices, to its return. *)
SimpleBacktest ==
    /\ pc = "ready"
    /\ engine = "BacktestEngine"
    /\ \E sig \in SeqsOfLen(Signal, Len(close)) :
          /\ signals' = sig
          /\ result' = <<SimpleBacktestCall(sig)>>
    /\ call' = [op |-> "simple_backtest"]
    /\ pc' = IF Len(close) = 0 THEN "failed" ELSE "done"
    /\ UNCHANGED <<df, ta_available, engine, frame, initial_capital, service>>

(* The caller is done with what the call returned or raised. *)
Return ==
    /\ pc \in {"done", "failed"}
    /\ pc' = IF engine = "none" THEN "new" ELSE "ready"
    /\ call' = None
    /\ signals' = <<>>
    /\ result' = <<>>
    /\ UNCHANGED <<df, ta_available, engine, frame, initial_capital, service>>

Next == SimpleBacktest \/ Return

Spec == Init /\ [][Next]_vars

(***************************************************************************)
(* The trade simulator as the design documents it: FLAT --long-entry-->    *)
(* LONG --long-exit--> FLAT over the signal stream, every other signal a   *)
(* no-op.  These definitions state the claims; they are not the code.      *)
(***************************************************************************)
RECURSIVE LongAfter(_, _)
(* The documented position is LONG after the signals of bars 1..i. *)
LongAfter(sig, i) ==
    IF i = 0 THEN FALSE
    ELSE IF sig[i] = 1 THEN TRUE
    ELSE IF sig[i] = -1 THEN FALSE
    ELSE LongAfter(sig, i - 1)

(* The documented held-position value after bar i: 1 while LONG, 0 while FLAT. *)
HeldPosition(sig, i) == IF LongAfter(sig, i) THEN One ELSE Zero

(* The completed FLAT -> LONG -> FLAT cycles, as pairs <<entry bar, exit bar>>. *)
RECURSIVE CyclesFrom(_, _, _)
CyclesFrom(sig, i, entered) ==
    IF i > Len(sig) THEN <<>>
    ELSE IF entered = 0 /\ sig[i] = 1 THEN CyclesFrom(sig, i + 1, i)
    ELSE IF entered # 0 /\ sig[i] = -1 THEN <<<<entered, i>>>> \o CyclesFrom(sig, i + 1, 0)
    ELSE CyclesFrom(sig, i + 1, entered)
CompletedCycles(sig) == CyclesFrom(sig, 1, 0)

Done == pc = "done"
ret == result[1]
Bars == 1..Len(close)

(***************************************************************************)
(* C1: the held position that multiplies the bar returns is 1 while LONG   *)
(* and 0 while FLAT and never negative: after a long-exit signal the       *)
(* strategy earns zero return until the next long-entry.                   *)
(***************************************************************************)
C1_PositionLongOnly ==
    Done =>
        \A i \in Bars :
            /\ Positions(signals)[i] = HeldPosition(signals, i)
            /\ (i > 1 /\ ~LongAfter(signals, i - 1) /\ IsFinite(Returns(close)[i]))
                   => ret.returns[i] = Zero

(***************************************************************************)
(* C2: a long-exit signal received while FLAT is a no-op: the returned     *)
(* dictionary (trade list, equity curve, summary) is the one returned for  *)
(* the same stream with that signal replaced by none.  Stated for the      *)
(* histories whose prices are all positive.                                *)
(***************************************************************************)
PositivePrices == \A i \in Bars : close[i] > 0

C2_ExitWhileFlatIsNoOp ==
    (Done /\ PositivePrices) =>
        \A i \in Bars :
            (signals[i] = -1 /\ ~LongAfter(signals, i - 1))
                => ret = SimpleBacktestResult([signals EXCEPT ![i] = 0], close, close,
                                              initial_capital)

(***************************************************************************)
(* C3: a long-entry signal received while already LONG is a no-op.  For a  *)
(* stream whose long-entry bars all come before its long-exit bars (what   *)
(* the RSI threshold strategy emits on an oscillator that stays below the  *)
(* lower threshold and later above the upper one), the position changes    *)
(* only at the first entry bar and at the first exit bar, is held constant *)
(* in between, and exactly one Trade is produced, from the first entry bar *)
(* to the first exit bar.                                                  *)
(***************************************************************************)
EntryBars(sig) == {i \in 1..Len(sig) : sig[i] = 1}
ExitBars(sig) == {i \in 1..Len(sig) : sig[i] = -1}
MinOfSet(S) == CHOOSE m \in S : \A k \in S : m <= k
ThresholdShape(sig) ==
    /\ EntryBars(sig) # {}
    /\ ExitBars(sig) # {}
    /\ \A i \in EntryBars(sig), j \in ExitBars(sig) : i < j

(* in_position of _calculate_trades after the loop has handled bars 1..i. *)
InPositionAfter(i) ==
    TradeLoop(LoopInit, 1, i, Positions(signals), close, close).in_position

C3_EntryWhileLongIsNoOp ==
    (Done /\ ThresholdShape(signals)) =>
        LET e == MinOfSet(EntryBars(signals))
            x == MinOfSet(ExitBars(signals))
        IN  /\ \A i \in Bars :
                   InPositionAfter(i) # InPositionAfter(i - 1) => i \in {e, x}
            /\ \A i \in Bars : InPositionAfter(i) <=> (e <= i /\ i < x)
            /\ \A i \in Bars \ {1} :
                   Positions(signals)[i] # Positions(signals)[i - 1] => i \in {e, x}
            /\ ret.trades = 1
            /\ Len(ret.trades_detail) = 1
            /\ ret.trades_detail[1].entry_idx = <<e - 1>>
            /\ ret.trades_detail[1].exit_idx = x - 1

(* Two consecutive entry bars and, later, two consecutive exit bars. *)
C3_Witness ==
    /\ Done
    /\ ThresholdShape(signals)
    /\ \E i \in Bars \ {1} : signals[i] = 1 /\ signals[i - 1] = 1
    /\ \E i \in Bars \ {1} : signals[i] = -1 /\ signals[i - 1] = -1
    /\ ret.trades = 1

(***************************************************************************)
(* C4: the number of Trades returned (the 'trades' count and the length of *)
(* 'trades_detail') is the number of completed FLAT -> LONG -> FLAT cycles *)
(* of the signal stream; a position still open at the last bar adds no     *)
(* Trade and is counted neither as a winning nor as a losing trade.        *)
(***************************************************************************)
C4_TradeCountIsCompletedCycles ==
    Done =>
        /\ ret.trades = Len(CompletedCycles(signals))
        /\ Len(ret.trades_detail) = Len(CompletedCycles(signals))
        /\ ret.winning_trades + ret.losing_trades = Len(CompletedCycles(signals))

(* One completed cycle followed by a position still open at the last bar. *)
C4_Witness ==
    /\ Done
    /\ LongAfter(signals, Len(signals))
    /\ Len(CompletedCycles(signals)) >= 1
    /\ ret.trades = Len(CompletedCycles(signals))

(***************************************************************************)
(* C5: the first entry of the returned equity curve is the configured      *)
(* initial capital, a defined number.                                      *)
(***************************************************************************)
C5_EquityStartsAtCapital ==
    Done => ret.equity_curve[1] = Num(initial_capital)

(***************************************************************************)
(* C6: one-bar execution lag.  The strategy return of a bar is the         *)
(* position held after the previous bar times the bar's return, and the    *)
(* signal of bar j does not reach the equity of bars up to j: replacing    *)
(* the signal of bar j by any other leaves the equity of bars 1..j as it   *)
(* is.  Two streams that agree before bar j are joined by a chain of such  *)
(* replacements at bars j and later, so their equity agrees up to bar j.   *)
(***************************************************************************)
EquityOf(sig) ==
    EquityCurve(StrategyReturns(Positions(sig), Returns(close)), initial_capital)

LaggedProduct(positions, returns) ==
    \A i \in Bars \ {1} : ret.returns[i] = Mul(positions[i - 1], returns[i])

C6_OneBarLag ==
    Done =>
        /\ LaggedProduct(Positions(signals), Returns(close))
        /\ \A j \in Bars : \A v \in Signal \ {signals[j]} :
               SubSeq(EquityOf([signals EXCEPT ![j] = v]), 1, j)
                   = SubSeq(ret.equity_curve, 1, j)

(* The signal of bar j does reach the equity of bar j + 1. *)
C6_Witness ==
    /\ Done
    /\ \E j \in Bars, v \in Signal :
          /\ j < Len(close)
          /\ EquityOf([signals EXCEPT ![j] = v])[j + 1] # ret.equity_curve[j + 1]

(***************************************************************************)
(* C7: every Trade of a FLAT -> LONG -> FLAT round trip takes the price of *)
(* the entry-signal bar as entry and of the exit-signal bar as exit, and   *)
(* reports pnl percent = (exit - entry) / entry * 100 and pnl absolute =   *)
(* exit - entry, each rounded to two decimals, and duration = exit index - *)
(* entry index; entry 100 and exit 110 one bar apart give pnl_pct 10.0,    *)
(* pnl_amount 10.0 and duration_periods 1.                                 *)
(***************************************************************************)
ExactPnlPct(e, x) == Mul(Div(Sub(x, e), e), Num(100))

RoundTripExample ==
    SimpleBacktestResult(<<1, -1>>, <<100, 110>>, <<100, 110>>, DefaultCapital)

C7_TradeFieldsRounded ==
    /\ RoundTripExample.trades_detail =
           <<[trade_number |-> 1, entry_price |-> Num(100), exit_price |-> Num(110),
              entry_idx |-> <<0>>, exit_idx |-> 1, pnl_pct |-> Num(10),
              pnl_amount |-> Num(10), duration_periods |-> 1, win |-> TRUE]>>
    /\ Done =>
           /\ Len(ret.trades_detail) = Len(CompletedCycles(signals))
           /\ \A k \in 1..Len(ret.trades_detail) :
                  LET t == ret.trades_detail[k]
                      c == CompletedCycles(signals)[k]
                      e == Num(close[c[1]])
                      x == Num(close[c[2]])
                  IN  /\ t.entry_idx = <<c[1] - 1>>
                      /\ t.exit_idx = c[2] - 1
                      /\ t.entry_price = Round2(e)
                      /\ t.exit_price = Round2(x)
                      /\ t.pnl_pct = Round2(ExactPnlPct(e, x))
                      /\ t.pnl_amount = Round2(Sub(x, e))
                      /\ t.duration_periods = c[2] - c[1]

(* The claim as written: the reported pnl percent is the exact quotient. *)
C7_TradeFieldsExact ==
    Done =>
        /\ Len(ret.trades_detail) = Len(CompletedCycles(signals))
        /\ \A k \in 1..Len(ret.trades_detail) :
               LET t == ret.trades_detail[k]
                   c == CompletedCycles(signals)[k]
                   e == Num(close[c[1]])
                   x == Num(close[c[2]])
               IN  /\ t.entry_price = e
                   /\ t.exit_price = x
                   /\ t.pnl_pct = ExactPnlPct(e, x)
                   /\ t.pnl_amount = Sub(x, e)
                   /\ t.duration_periods = c[2] - c[1]

(* A round trip whose exact pnl percent does not end after two decimals. *)
C7_Witness ==
    /\ Done
    /\ \E k \in 1..Len(ret.trades_detail) :
          LET t == ret.trades_detail[k]
              c == CompletedCycles(signals)[k]
          IN  /\ IsFinite(t.pnl_pct)
              /\ t.pnl_pct # ExactPnlPct(Num(close[c[1]]), Num(close[c[2]]))
              /\ t.duration_periods > 1

(***************************************************************************)
(* C8: a backtest with the signal none on every bar returns trades = 0,    *)
(* win_rate_pct = 0, sharpe = 0 and total_return_pct = 0 on any valid      *)
(* non-empty price history.  Stated for the histories whose prices are all *)
(* positive.                                                               *)
(***************************************************************************)
C8_FlatSignalSummaryIsZero ==
    (Done /\ PositivePrices /\ \A i \in Bars : signals[i] = 0) =>
        /\ ret.trades = 0
        /\ ret.win_rate_pct = Zero
        /\ SharpeKind(ret.sharpe) = "zero"
        /\ ret.total_return_pct = Zero

(***************************************************************************)
(* C9: every numeric value of the returned summary and trade list is a     *)
(* defined finite number, for every valid non-empty price history (one or  *)
(* two bars and prices equal to 0 included) and every signal stream.       *)
(***************************************************************************)
C9_ResultIsFinite ==
    Done =>
        /\ IsFinite(ret.total_return_pct)
        /\ SharpeKind(ret.sharpe) \in {"zero", "finite"}
        /\ IsFinite(ret.max_dd_pct)
        /\ IsFinite(ret.win_rate_pct)
        /\ IsFinite(ret.final_equity)
        /\ \A k \in 1..Len(ret.trades_detail) :
               /\ IsFinite(ret.trades_detail[k].pnl_pct)
               /\ IsFinite(ret.trades_detail[k].pnl_amount)

(***************************************************************************)
(* C10: largest_win_pct is the maximum pnl percent over the winning trades *)
(* only and largest_loss_pct the minimum pnl percent over the losing       *)
(* trades only, each 0 when its subset is empty; hence largest_win_pct >=  *)
(* 0 and largest_loss_pct <= 0.  Stated for the histories whose prices are *)
(* all positive, where every pnl percent is finite.                        *)
(***************************************************************************)
C10_LargestWinLossBySign ==
    (Done /\ PositivePrices) =>
        /\ ret.largest_win_pct = Round2(PyMax(PnlPcts(WinningTrades(ret.trades_detail))))
        /\ ret.largest_loss_pct = Round2(PyMin(PnlPcts(LosingTrades(ret.trades_detail))))
        /\ Ge(ret.largest_win_pct, Zero)
        /\ Le(ret.largest_loss_pct, Zero)

(***************************************************************************)
(* C11: avg_win_pct is the mean pnl percent over the trades with pnl > 0   *)
(* and avg_loss_pct the mean pnl percent over the trades with pnl < 0, a   *)
(* trade with pnl exactly 0 entering neither average; each is 0 when its   *)
(* subset is empty.  Stated for the histories whose prices are all         *)
(* positive, where every pnl percent is finite.                            *)
(***************************************************************************)
GainTrades(trades) == SelectSeq(trades, LAMBDA t : Gt(t.pnl_pct, Zero))
LossTrades(trades) == SelectSeq(trades, LAMBDA t : Lt(t.pnl_pct, Zero))

C11_AvgWinLossBySign ==
    (Done /\ PositivePrices) =>
        /\ ret.avg_win_pct = Round2(AvgPnl(GainTrades(ret.trades_detail)))
        /\ ret.avg_loss_pct = Round2(AvgPnl(LossTrades(ret.trades_detail)))

(***************************************************************************)
(* The same engine on histories of positive prices with three price        *)
(* levels (1, 2, 4), so that an equity curve can fall to a low, rise to a  *)
(* later peak and fall back part of the way.                               *)
(***************************************************************************)
PositiveLevels == {1, 2, 4}
PositiveHistories == UNION {SeqsOfLen(PositiveLevels, n) : n \in 1..MaxBars}

InitPositive ==
    /\ \E c \in PositiveHistories : Constructed("BacktestEngine", c)
    /\ ta_available = FALSE
    /\ initial_capital \in InitialCapitals
    /\ NoService

SpecPositive == InitPositive /\ [][Next]_vars

(***************************************************************************)
(* C12: for every backtest, max_dd_pct is >= 0 and <= 100 * (1 - m/p),     *)
(* where m is the minimum value of the equity curve and p is the maximum   *)
(* equity value up to the bar where that minimum occurs (any such bar when *)
(* the minimum occurs more than once).  Stated for the backtests whose     *)
(* equity is a positive number on every bar after the first.               *)
(***************************************************************************)
EquityPositive ==
    /\ Len(close) >= 2
    /\ \A i \in 2..Len(close) :
           IsFinite(ret.equity_curve[i]) /\ Gt(ret.equity_curve[i], Zero)

(* 100 * (1 - m/p) *)
DrawdownBound(m, p) == Mul(Num(100), Sub(One, Div(m, p)))

BoundAtMinimum(max_dd, equity, running_max, m) ==
    \E i \in 1..Len(equity) :
        equity[i] = m /\ Le(max_dd, DrawdownBound(m, running_max[i]))

CurveMax(v) == IF v = <<>> THEN NaN ELSE FoldMax(v, 2, v[1])

DeclineFromPeak(equity, running_max, i) == DrawdownBound(equity[i], running_max[i])

LargestDecline(max_dd, equity, running_max) ==
    /\ \A i \in 2..Len(equity) : Le(DeclineFromPeak(equity, running_max, i), max_dd)
    /\ \E i \in 2..Len(equity) : DeclineFromPeak(equity, running_max, i) = max_dd

MaxPeriod == 3
Periods == 1..MaxPeriod

Nums(c) == [i \in 1..Len(c) |-> Num(c[i])]

(* A rolling window keeps the present finite entries: pandas replaces inf  *)
(* by NaN before it rolls.                                                 *)
Window(s, i, w) == SubSeq(s, i - w + 1, i)
WindowFull(s, i, w) ==
    /\ i >= w
    /\ \A k \in (i - w + 1)..i : IsFinite(s[k])

(* The rolling mean with min_periods = 1: what sma must not compute. *)
RollingMeanPartial(s, w) ==
    [i \in 1..Len(s) |->
        IF i >= w THEN Div(SeqSum(Window(s, i, w)), Num(w))
        ELSE Div(SeqSum(SubSeq(s, 1, i)), Num(i))]

(* Series.rolling(window=w).mean(): min_periods is w, so a bar has a value *)
(* only when the w entries ending at it are all present.                   *)
RollingMean(s, w) ==
    [i \in 1..Len(s) |->
        IF WindowFull(s, i, w) THEN Div(SeqSum(Window(s, i, w)), Num(w)) ELSE NaN]

(* sma(period, column) *)
Sma(column, period) == RollingMean(Nums(column), period)

(* Series.ewm(span=span, adjust=False).mean() of a series without missing  *)
(* entries: y[0] = x[0], y[t] = (1 - alpha) * y[t-1] + alpha * x[t], with  *)
(* alpha = 2 / (span + 1).                                                 *)
Alpha(span) == Div(Num(2), Num(span + 1))
RECURSIVE EwmFrom(_, _, _, _)
EwmFrom(s, i, prev, alpha) ==
    IF i > Len(s) THEN <<>>
    ELSE LET y == IF i = 1 THEN s[1]
                  ELSE Add(Mul(Sub(One, alpha), prev), Mul(alpha, s[i]))
         IN  <<y>> \o EwmFrom(s, i + 1, y, alpha)
(* An exponential average that waits for span entries before it has a     *)
(* value: what ema must not compute.                                       *)
EwmMeanMinPeriods(s, span) ==
    [i \in 1..Len(s) |-> IF i < span THEN NaN ELSE EwmFrom(s, 1, NaN, Alpha(span))[i]]
EwmMean(s, span) == EwmFrom(s, 1, NaN, Alpha(span))

(* ema(period, column) *)
Ema(column, period) == EwmMean(Nums(column), period)

SeriesSub(a, b) == [i \in 1..Len(a) |-> Sub(a[i], b[i])]

(* macd(fast, slow, signal) *)
MacdOf(macd_line, signal) ==
    [macd |-> macd_line,
     signal |-> EwmMean(macd_line, signal),
     histogram |-> SeriesSub(macd_line, EwmMean(macd_line, signal))]
Macd(column, fast, slow, signal) ==
    MacdOf(SeriesSub(Ema(column, fast), Ema(column, slow)), signal)

(***************************************************************************)
(* BacktestEngine: the crossover strategies.  A comparison with a missing  *)
(* value is false, so a bar whose series, or whose previous bar's series,  *)
(* has no value is on neither mask.                                        *)
(***************************************************************************)
(* A mask that asks for a previous bar strictly below: what the crossover  *)
(* masks must not compute.                                                 *)
CrossoverUpStrict(a, b, a_prev, b_prev) ==
    [i \in 1..Len(a) |-> Gt(a[i], b[i]) /\ Lt(a_prev[i], b_prev[i])]

(* (a > b) & (a.shift(1) <= b.shift(1)) *)
CrossoverUp(a, b, a_prev, b_prev) ==
    [i \in 1..Len(a) |-> Gt(a[i], b[i]) /\ Le(a_prev[i], b_prev[i])]
(* (a < b) & (a.shift(1) >= b.shift(1)) *)
CrossoverDown(a, b, a_prev, b_prev) ==
    [i \in 1..Len(a) |-> Lt(a[i], b[i]) /\ Ge(a_prev[i], b_prev[i])]

(* signals[mask] = value *)
SetWhere(sig, mask, value) ==
    [i \in 1..Len(sig) |-> IF mask[i] THEN value ELSE sig[i]]
(* pd.Series(0, index=self.df.index) *)
Zeros(n) == [i \in 1..n |-> 0]

(* signals = 0; signals[crossover_up] = 1; signals[crossover_down] = -1 *)
CrossoverSignalsOf(a, b, a_prev, b_prev) ==
    SetWhere(SetWhere(Zeros(Len(a)), CrossoverUp(a, b, a_prev, b_prev), 1),
             CrossoverDown(a, b, a_prev, b_prev), -1)
CrossoverSignals(a, b) == CrossoverSignalsOf(a, b, Shift1(a), Shift1(b))

(* The signals of sma_crossover_backtest (the first assignment to signals, *)
(* lines 134-136, is overwritten before it is read) and of                 *)
(* macd_crossover_backtest.                                                *)
SmaCrossoverSignals(column, fast_period, slow_period) ==
    CrossoverSignals(Sma(column, fast_period), Sma(column, slow_period))
MacdCrossoverSignalsOf(macd_data) == CrossoverSignals(macd_data.macd, macd_data.signal)
MacdCrossoverSignals(column, fast, slow, signal) ==
    MacdCrossoverSignalsOf(Macd(column, fast, slow, signal))

(* Spans of the exponential averages: alpha = 1 and alpha = 1/2. *)
MacdSpans == {1, 3}

(* A strategy method: it builds its signals and returns simple_backtest(signals). *)
StrategyCall(sig) ==
    /\ pc = "ready"
    /\ engine = "BacktestEngine"
    /\ signals' = sig
    /\ result' = <<SimpleBacktestCall(sig)>>
    /\ pc' = IF Len(close) = 0 THEN "failed" ELSE "done"
    /\ UNCHANGED <<df, ta_available, engine, frame, initial_capital, service>>

SmaCrossoverBacktest ==
    \E fast_period, slow_period \in Periods :
        /\ call' = [op |-> "sma_crossover_backtest",
                    fast_period |-> fast_period, slow_period |-> slow_period]
        /\ StrategyCall(SmaCrossoverSignals(close, fast_period, slow_period))

MacdCrossoverBacktest ==
    \E fast, slow, signal \in MacdSpans :
        /\ call' = [op |-> "macd_crossover_backtest",
                    fast |-> fast, slow |-> slow, signal |-> signal]
        /\ StrategyCall(MacdCrossoverSignals(close, fast, slow, signal))

(***************************************************************************)
(* rsi(period).  Without the ta library: rolling means of the gains and of *)
(* the losses.  The close-to-close delta of bar 0 is missing and where()   *)
(* turns it into a gain and a loss of 0.                                   *)
(***************************************************************************)
Diff(s) == [i \in 1..Len(s) |-> IF i = 1 THEN NaN ELSE Sub(s[i], s[i - 1])]
(* delta.where(delta > 0, 0) and -delta.where(delta < 0, 0) *)
Gains(delta) == [i \in 1..Len(delta) |-> IF Gt(delta[i], Zero) THEN delta[i] ELSE Zero]
Losses(delta) ==
    [i \in 1..Len(delta) |-> IF Lt(delta[i], Zero) THEN Neg(delta[i]) ELSE Zero]
SeriesDiv(a, b) == [i \in 1..Len(a) |-> Div(a[i], b[i])]
(* 100 - (100 / (1 + rs)) *)
RsiOfRatio(rs) == Sub(Num(100), Div(Num(100), Add(One, rs)))
RsiFrom(gain, loss) == [i \in 1..Len(gain) |-> RsiOfRatio(Div(gain[i], loss[i]))]
ManualRsi(column, period) ==
    RsiFrom(RollingMean(Gains(Diff(Nums(column))), period),
            RollingMean(Losses(Diff(Nums(column))), period))

(* ta.momentum.RSIIndicator(close, window).rsi(), which the method returns *)
(* when the ta library is importable: the gains and the losses are         *)
(* smoothed by ewm(alpha=1/window, min_periods=window, adjust=False), and  *)
(* the value is 100 where the smoothed loss is 0.                          *)
MinPeriods(mean, min_periods) ==
    [i \in 1..Len(mean) |-> IF i < min_periods THEN NaN ELSE mean[i]]
EwmMeanFrom(s, alpha, min_periods) == MinPeriods(EwmFrom(s, 1, NaN, alpha), min_periods)
TaRsiFrom(emaup, emadn) ==
    [i \in 1..Len(emaup) |->
        IF emadn[i] = Zero THEN Num(100) ELSE RsiOfRatio(Div(emaup[i], emadn[i]))]
TaRsi(column, window) ==
    TaRsiFrom(EwmMeanFrom(Gains(Diff(Nums(column))), Div(One, Num(window)), window),
              EwmMeanFrom(Losses(Diff(Nums(column))), Div(One, Num(window)), window))

Rsi(column, period, ta) ==
    IF ta THEN TaRsi(column, period) ELSE ManualRsi(column, period)

(* rsi_strategy_backtest: signals[rsi < oversold] = 1, then                *)
(* signals[rsi > overbought] = -1.                                         *)
Below(s, level) == [i \in 1..Len(s) |-> Lt(s[i], Num(level))]
Above(s, level) == [i \in 1..Len(s) |-> Gt(s[i], Num(level))]
(* The two assignments in the other order: the entry written last. *)
RsiSignalsEntryLast(rsi, oversold, overbought) ==
    SetWhere(SetWhere(Zeros(Len(rsi)), Above(rsi, overbought), -1),
             Below(rsi, oversold), 1)
RsiSignals(rsi, oversold, overbought) ==
    SetWhere(SetWhere(Zeros(Len(rsi)), Below(rsi, oversold), 1),
             Above(rsi, overbought), -1)

(* The default thresholds, and a pair with the lower one above the upper. *)
DefaultOversold == 30
DefaultOverbought == 70
Thresholds == {<<DefaultOversold, DefaultOverbought>>,
               <<DefaultOverbought, DefaultOversold>>}

RsiStrategyBacktest ==
    \E rsi_period \in Periods, t \in Thresholds :
        /\ call' = [op |-> "rsi_strategy_backtest", rsi_period |-> rsi_period,
                    oversold |-> t[1], overbought |-> t[2]]
        /\ StrategyCall(RsiSignals(Rsi(close, rsi_period, ta_available), t[1], t[2]))

(***************************************************************************)
(* The strategies of a BacktestEngine on histories of up to                *)
(* MaxStrategyBars bars, with and without the ta library.                  *)
(***************************************************************************)
MaxStrategyBars == 5
StrategyHistories == UNION {SeqsOfLen(Prices, n) : n \in 1..MaxStrategyBars}

InitStrategy ==
    /\ \E c \in StrategyHistories : Constructed("BacktestEngine", c)
    /\ ta_available \in BOOLEAN
    /\ initial_capital = DefaultCapital
    /\ NoService

NextStrategy ==
    SmaCrossoverBacktest \/ MacdCrossoverBacktest \/ RsiStrategyBacktest \/ Return

SpecStrategy == InitStrategy /\ [][NextStrategy]_vars

(***************************************************************************)
(* C13: in the crossover strategies (sma_crossover_backtest,               *)
(* macd_crossover_backtest), two long-entry signals never occur without a  *)
(* long-exit signal between them, and two long-exit signals never occur    *)
(* without a long-entry signal between them, also when the two series      *)
(* touch with equal values and separate again in the same direction.       *)
(***************************************************************************)
CrossoverStrategies == {"sma_crossover_backtest", "macd_crossover_backtest"}
CrossoverDone == Done /\ call.op \in CrossoverStrategies

NoRepeat(sig, v) ==
    \A i, j \in 1..Len(sig) :
        (i < j /\ sig[i] = v /\ sig[j] = v) => \E k \in (i + 1)..(j - 1) : sig[k] = -v

C13_CrossoversAlternate ==
    CrossoverDone => NoRepeat(signals, 1) /\ NoRepeat(signals, -1)

(***************************************************************************)
(* AnalysisEngine: the other window indicators.                            *)
(***************************************************************************)
(* wma(period): rolling(window=period).apply(dot(x, weights) / sum(weights)) *)
(* with weights 1..period.                                                 *)
RECURSIVE WeightedSum(_, _)
WeightedSum(x, k) ==
    IF k = 0 THEN Zero ELSE Add(WeightedSum(x, k - 1), Mul(Num(k), x[k]))
WeightSum(period) == (period * (period + 1)) \div 2
RollingApplyWeights(s, period) ==
    [i \in 1..Len(s) |->
        IF WindowFull(s, i, period)
        THEN Div(WeightedSum(Window(s, i, period), period), Num(WeightSum(period)))
        ELSE NaN]
Wma(column, period) == RollingApplyWeights(Nums(column), period)

(* Series.rolling(window=w).min() and .max() *)
CurveMin(v) == IF v = <<>> THEN NaN ELSE FoldMin(v, 2, v[1])
RollingMin(s, w) ==
    [i \in 1..Len(s) |-> IF WindowFull(s, i, w) THEN CurveMin(Window(s, i, w)) ELSE NaN]
RollingMax(s, w) ==
    [i \in 1..Len(s) |-> IF WindowFull(s, i, w) THEN CurveMax(Window(s, i, w)) ELSE NaN]

(* stochastic(k_period, d_period) *)
KPercent(c, low_min, high_max) ==
    [i \in 1..Len(c) |->
        Mul(Num(100), Div(Sub(c[i], low_min[i]), Sub(high_max[i], low_min[i])))]
StochasticOf(k_percent, d_period) ==
    [k |-> k_percent, d |-> RollingMean(k_percent, d_period)]
Stochastic(h, l, c, k_period, d_period) ==
    StochasticOf(KPercent(Nums(c), RollingMin(Nums(l), k_period),
                          RollingMax(Nums(h), k_period)),
                 d_period)

(* Series.rolling(window=w).std(), kept as its square: the sample variance *)
(* (ddof = 1) of the window, missing for a window of one entry.            *)
RollingVar(s, w) ==
    [i \in 1..Len(s) |-> IF WindowFull(s, i, w) THEN VarOf(Window(s, i, w)) ELSE NaN]

(* bollinger_bands(period, std_dev): a band entry [mid, var, mult] stands  *)
(* for mid + mult * sqrt(var); it has a value when mid and var have one.   *)
Band(sma, var, mult) ==
    [i \in 1..Len(sma) |-> [mid |-> sma[i], var |-> var[i], mult |-> mult]]
BollingerOf(sma, var, std_dev) ==
    [upper |-> Band(sma, var, std_dev),
     middle |-> sma,
     lower |-> Band(sma, var, -std_dev)]
BollingerBands(column, period, std_dev) ==
    BollingerOf(Sma(column, period), RollingVar(Nums(column), period), std_dev)

(* atr(period): the row maximum skips the missing entries, so bar 0 has    *)
(* the true range high - low.                                              *)
RowMax(a, b, c) == CurveMax(DropNa(<<a, b, c>>))
TrueRange(h, l, prev_close) ==
    [i \in 1..Len(h) |->
        RowMax(Sub(h[i], l[i]), AbsNum(Sub(h[i], prev_close[i])),
               AbsNum(Sub(l[i], prev_close[i])))]
Atr(h, l, c, period) ==
    RollingMean(TrueRange(Nums(h), Nums(l), Shift1(Nums(c))), period)

(* volume_sma(period) *)
VolumeSma(v, period) == RollingMean(Nums(v), period)

(* calculate_statistics: the standard deviation is kept as its square, the *)
(* Sharpe ratio as [mean, var] like the one of a backtest, and 0 as        *)
(* [mean |-> 0, var |-> 1].  On a history of zero bars                     *)
(* self.df['Close'].iloc[-1] raises IndexError.                            *)
StatisticsOf(c, returns) ==
    [mean_return |-> MeanOf(returns),
     var_return |-> VarOf(returns),
     sharpe_ratio |-> IF Gt(VarOf(returns), Zero)
                      THEN [mean |-> MeanOf(returns), var |-> VarOf(returns)]
                      ELSE [mean |-> Zero, var |-> One],
     max_gain |-> CurveMax(returns),
     max_loss |-> CurveMin(returns),
     current_price |-> Num(c[Len(c)]),
     price_change_pct |-> Mul(Div(Sub(Num(c[Len(c)]), Num(c[1])), Num(c[1])), Num(100))]
CalculateStatistics(c) ==
    IF Len(c) = 0 THEN Raised("IndexError") ELSE StatisticsOf(c, DropNa(PctChange(c)))

(***************************************************************************)
(* The indicator methods as calls on an engine: on an AnalysisEngine, or   *)
(* on the one a BacktestEngine holds as self.analysis.                     *)
(***************************************************************************)
DefaultStdDev == 2

IndicatorCall(value, returned) ==
    /\ pc = "ready"
    /\ engine \in {"AnalysisEngine", "BacktestEngine"}
    /\ signals' = <<>>
    /\ result' = <<value>>
    /\ pc' = IF returned THEN "done" ELSE "failed"
    /\ UNCHANGED <<df, ta_available, engine, frame, initial_capital, service>>

SmaCall ==
    \E period \in Periods :
        /\ call' = [op |-> "sma", period |-> period]
        /\ IndicatorCall(Sma(close, period), TRUE)
EmaCall ==
    \E period \in Periods :
        /\ call' = [op |-> "ema", period |-> period]
        /\ IndicatorCall(Ema(close, period), TRUE)
WmaCall ==
    \E period \in Periods :
        /\ call' = [op |-> "wma", period |-> period]
        /\ IndicatorCall(Wma(close, period), TRUE)
RsiCall ==
    \E period \in Periods :
        /\ call' = [op |-> "rsi", period |-> period]
        /\ IndicatorCall(Rsi(close, period, ta_available), TRUE)
MacdCall ==
    \E fast, slow, signal \in MacdSpans :
        /\ call' = [op |-> "macd", fast |-> fast, slow |-> slow, signal |-> signal]
        /\ IndicatorCall(Macd(close, fast, slow, signal), TRUE)
StochasticCall ==
    \E k_period, d_period \in Periods :
        /\ call' = [op |-> "stochastic", k_period |-> k_period, d_period |-> d_period]
        /\ IndicatorCall(Stochastic(high, low, close, k_period, d_period), TRUE)
BollingerBandsCall ==
    \E period \in Periods :
        /\ call' = [op |-> "bollinger_bands", period |-> period,
                    std_dev |-> DefaultStdDev]
        /\ IndicatorCall(BollingerBands(close, period, DefaultStdDev), TRUE)
AtrCall ==
    \E period \in Periods :
        /\ call' = [op |-> "atr", period |-> period]
        /\ IndicatorCall(Atr(high, low, close, period), TRUE)
VolumeSmaCall ==
    \E period \in Periods :
        /\ call' = [op |-> "volume_sma", period |-> period]
        /\ IndicatorCall(VolumeSma(volume, period), TRUE)
CalculateStatisticsCall ==
    /\ call' = [op |-> "calculate_statistics"]
    /\ IndicatorCall(CalculateStatistics(close), Len(close) > 0)

IndicatorCalls ==
    \/ SmaCall \/ EmaCall \/ WmaCall \/ RsiCall \/ MacdCall \/ StochasticCall
    \/ BollingerBandsCall \/ AtrCall \/ VolumeSmaCall \/ CalculateStatisticsCall

(***************************************************************************)
(* An AnalysisEngine on a non-empty history, with and without the ta       *)
(* library, serving indicator calls.                                       *)
(***************************************************************************)
InitIndicators ==
    /\ \E c \in Histories : Constructed("AnalysisEngine", c)
    /\ ta_available \in BOOLEAN
    /\ initial_capital = DefaultCapital
    /\ NoService

NextIndicators == IndicatorCalls \/ Return

SpecIndicators == InitIndicators /\ [][NextIndicators]_vars

(***************************************************************************)
(* C14: sma(period) returns, for every bar i >= period - 1, the arithmetic *)
(* mean of the `period` values ending at i, and an undefined value for     *)
(* every bar i < period - 1; when period exceeds the history length the    *)
(* whole series is undefined and no error is raised.  Closes               *)
(* [10, 11, 12, 11, 10] with period 2 give [undef, 10.5, 11.5, 11.5, 10.5].*)
(* (Bars are counted from 0 in the claim and from 1 here.)                 *)
(***************************************************************************)
RECURSIVE SumOfBars(_, _, _)
SumOfBars(c, first, last) ==
    IF first > last THEN 0 ELSE c[first] + SumOfBars(c, first + 1, last)
TrailingMean(c, i, period) == Norm(SumOfBars(c, i - period + 1, i), period)

SmaExample ==
    Sma(<<10, 11, 12, 11, 10>>, 2) = <<NaN, <<21, 2>>, <<23, 2>>, <<23, 2>>, <<21, 2>>>>

C14_SmaIsTrailingMean ==
    /\ SmaExample
    /\ (Done /\ call.op = "sma") =>
           /\ Len(ret) = Len(close)
           /\ \A i \in Bars :
                  IF i >= call.period
                  THEN ret[i] = TrailingMean(close, i, call.period)
                  ELSE IsNaN(ret[i])
           /\ call.period > Len(close) => \A i \in Bars : IsNaN(ret[i])

(* A window of two bars on a history of three or more: the first bar has   *)
(* no value, the later ones have the mean of two different prices.         *)
C14_Witness ==
    /\ Done
    /\ call.op = "sma"
    /\ call.period = 2
    /\ Len(close) >= 3
    /\ IsNaN(ret[1])
    /\ close[2] # close[3]
    /\ ret[3] = TrailingMean(close, 3, 2)

(***************************************************************************)
(* C15: for every window-parameterised indicator of AnalysisEngine (sma,   *)
(* ema, wma, rsi, stochastic %K and %D, bollinger_bands, atr, volume_sma), *)
(* the output series has exactly one entry per bar and its entries at      *)
(* indices below window - 1 are undefined, never a default numeric value.  *)
(***************************************************************************)
SingleWindow == {"sma", "wma", "rsi", "atr", "volume_sma"}

(* One entry per bar, and no value on the bars before the w-th. *)
UndefinedPrefix(s, w) ==
    /\ Len(s) = Len(close)
    /\ \A i \in 1..Len(s) : i < w => IsNaN(s[i])
BandUndefinedPrefix(s, w) ==
    /\ Len(s) = Len(close)
    /\ \A i \in 1..Len(s) : i < w => (IsNaN(s[i].mid) \/ IsNaN(s[i].var))

WindowedOutputs ==
    /\ call.op \in SingleWindow => UndefinedPrefix(ret, call.period)
    /\ call.op = "stochastic" =>
           /\ UndefinedPrefix(ret.k, call.k_period)
           /\ UndefinedPrefix(ret.d, call.d_period)
    /\ call.op = "bollinger_bands" =>
           /\ BandUndefinedPrefix(ret.upper, call.period)
           /\ UndefinedPrefix(ret.middle, call.period)
           /\ BandUndefinedPrefix(ret.lower, call.period)

C15_WindowPrefixUndefined ==
    Done =>
        /\ WindowedOutputs
        /\ call.op = "ema" => UndefinedPrefix(ret, call.period)

(***************************************************************************)
(* C15, amended: the same for sma, wma, rsi, stochastic %K and %D,         *)
(* bollinger_bands, atr and volume_sma; ema has one entry per bar and a    *)
(* value on every bar, the first bar's being the first close.              *)
(***************************************************************************)
C15_WindowPrefixUndefinedButEma ==
    Done =>
        /\ WindowedOutputs
        /\ call.op = "ema" =>
               /\ Len(ret) = Len(close)
               /\ \A i \in Bars : IsFinite(ret[i])
               /\ ret[1] = Num(close[1])

(* An ema with a window of three bars has a value on its first bar. *)
C15_Witness ==
    /\ Done
    /\ call.op = "ema"
    /\ call.period = 3
    /\ Len(close) >= 3
    /\ ret[1] = Num(close[1])
    /\ ret[2] # Num(close[2])

(***************************************************************************)
(* Construction.  AnalysisEngine.__init__ copies the caller's frame and    *)
(* validates the copy; BacktestEngine.__init__ copies the frame and builds *)
(* an AnalysisEngine on the copy, whose ValueError it lets through.  A     *)
(* constructor that raises returns no instance.                            *)
(***************************************************************************)
(* A validation that reports only the first missing column: what           *)
(* _validate_data must not compute.                                        *)
MissingFirst(columns) ==
    LET missing == SelectSeq(Required, LAMBDA col : col \notin columns)
    IN  IF missing = <<>> THEN <<>> ELSE <<missing[1]>>

(* missing = [col for col in required if col not in self.df.columns] *)
Missing(columns) == SelectSeq(Required, LAMBDA col : col \notin columns)

(* A copy that leaves out the first row: what df.copy() must not be. *)
CopyWithoutFirstRow(column) == IF column = <<>> THEN <<>> ELSE Tail(column)

(* df.copy(), column by column *)
Copy(column) == column

(* raise ValueError(f"Missing required columns: {missing}") *)
MissingColumnsError(missing) == [raised |-> "ValueError", missing |-> missing]

Construct(class) ==
    /\ pc = "new"
    /\ IF Missing(df.columns) # <<>>
       THEN /\ result' = <<MissingColumnsError(Missing(df.columns))>>
            /\ pc' = "failed"
            /\ UNCHANGED <<engine, frame>>
       ELSE /\ engine' = class
            /\ open' = Copy(df.data["Open"])
            /\ high' = Copy(df.data["High"])
            /\ low' = Copy(df.data["Low"])
            /\ close' = Copy(df.data["Close"])
            /\ volume' = Copy(df.data["Volume"])
            /\ result' = <<>>
            /\ pc' = "ready"
    /\ UNCHANGED <<df, ta_available, initial_capital, signals, service>>

ConstructAnalysisEngine ==
    /\ call' = [op |-> "AnalysisEngine"]
    /\ Construct("AnalysisEngine")
ConstructBacktestEngine ==
    /\ call' = [op |-> "BacktestEngine"]
    /\ Construct("BacktestEngine")

(***************************************************************************)
(* A caller with a frame of any subset of the required columns and up to   *)
(* MaxEngineBars rows, none included: it constructs an engine and calls    *)
(* its methods in any order.                                               *)
(***************************************************************************)
MaxEngineBars == 2
EngineHistories == UNION {SeqsOfLen(Prices, n) : n \in 0..MaxEngineBars}

InitEngine ==
    /\ \E columns \in SUBSET AllColumns, c \in EngineHistories :
           df = DataFrame(columns, c)
    /\ ta_available \in BOOLEAN
    /\ engine = "none"
    /\ open = <<>>
    /\ high = <<>>
    /\ low = <<>>
    /\ close = <<>>
    /\ volume = <<>>
    /\ initial_capital = DefaultCapital
    /\ pc = "new"
    /\ call = None
    /\ signals = <<>>
    /\ result = <<>>
    /\ NoService

NextEngine ==
    \/ ConstructAnalysisEngine \/ ConstructBacktestEngine
    \/ IndicatorCalls
    \/ SimpleBacktest \/ SmaCrossoverBacktest \/ MacdCrossoverBacktest
    \/ RsiStrategyBacktest
    \/ Return

SpecEngine == InitEngine /\ [][NextEngine]_vars

(***************************************************************************)
(* C16: constructing an AnalysisEngine or a BacktestEngine from input that *)
(* lacks any of the columns Open, High, Low, Close, Volume fails with an   *)
(* error naming exactly the missing columns, for every subset of missing   *)
(* columns; no engine instance is produced, so no indicator or backtest    *)
(* operation can run on such input.                                        *)
(***************************************************************************)
Constructors == {"AnalysisEngine", "BacktestEngine"}
LacksColumns == AllColumns \ df.columns # {}
Named(missing) == {missing[k] : k \in 1..Len(missing)}

C16_MissingColumnsRejected ==
    LacksColumns =>
        /\ engine = "none"
        /\ frame = <<<<>>, <<>>, <<>>, <<>>, <<>>>>
        /\ pc \in {"new", "failed"}
        /\ pc = "failed" =>
               /\ call.op \in Constructors
               /\ result[1].raised = "ValueError"
               /\ Named(result[1].missing) = AllColumns \ df.columns
               /\ Len(result[1].missing) = Cardinality(AllColumns \ df.columns)
        /\ pc = "new" => call = None /\ result = <<>>

(* A BacktestEngine asked for on a frame without High and Volume. *)
C16_Witness ==
    /\ pc = "failed"
    /\ call.op = "BacktestEngine"
    /\ df.columns = {"Open", "Low", "Close"}
    /\ result[1].missing = <<"High", "Volume">>
    /\ engine = "none"

(***************************************************************************)
(* C17: an empty price history (all five columns present, zero bars) is    *)
(* rejected as an input validation error surfaced immediately to the       *)
(* caller: engine construction reports a validation error, so that no      *)
(* engine exists on zero bars, and every backtest or statistics operation  *)
(* reports a validation error instead of computing on zero bars.           *)
(***************************************************************************)
EmptyHistory == AllColumns \subseteq df.columns /\ Len(df.data["Close"]) = 0

C17_EmptyHistoryRejected ==
    EmptyHistory =>
        /\ engine = "none"
        /\ pc \in {"new", "failed"}
        /\ pc = "failed" => result[1].raised = "ValueError"

(***************************************************************************)
(* C18: no engine operation holds or changes state.  After any sequence of *)
(* indicator and backtest calls on the same engine, the caller's price     *)
(* history and the engine's stored copy are unchanged (the copy still      *)
(* equals the caller's frame), and what a call returns is determined by    *)
(* its parameters and the caller's frame alone, whatever ran before it.    *)
(***************************************************************************)
CallerFrame ==
    <<df.data["Open"], df.data["High"], df.data["Low"], df.data["Close"],
      df.data["Volume"]>>

(* What the last call returns when it is the first one on a fresh engine   *)
(* built from the caller's frame.                                          *)
FreshResult(h, l, c, v) ==
    CASE call.op = "sma" -> Sma(c, call.period)
      [] call.op = "ema" -> Ema(c, call.period)
      [] call.op = "wma" -> Wma(c, call.period)
      [] call.op = "rsi" -> Rsi(c, call.period, ta_available)
      [] call.op = "macd" -> Macd(c, call.fast, call.slow, call.signal)
      [] call.op = "stochastic" -> Stochastic(h, l, c, call.k_period, call.d_period)
      [] call.op = "bollinger_bands" -> BollingerBands(c, call.period, call.std_dev)
      [] call.op = "atr" -> Atr(h, l, c, call.period)
      [] call.op = "volume_sma" -> VolumeSma(v, call.period)
      [] call.op = "calculate_statistics" -> CalculateStatistics(c)
      [] call.op = "simple_backtest" ->
             SimpleBacktestResult(signals, c, c, DefaultCapital)
      [] call.op = "sma_crossover_backtest" ->
             SimpleBacktestResult(
                 SmaCrossoverSignals(c, call.fast_period, call.slow_period),
                 c, c, DefaultCapital)
      [] call.op = "macd_crossover_backtest" ->
             SimpleBacktestResult(
                 MacdCrossoverSignals(c, call.fast, call.slow, call.signal),
                 c, c, DefaultCapital)
      [] call.op = "rsi_strategy_backtest" ->
             SimpleBacktestResult(
                 RsiSignals(Rsi(c, call.rsi_period, ta_available),
                            call.oversold, call.overbought),
                 c, c, DefaultCapital)

StoredCopyIntact == engine # "none" => frame = CallerFrame
ResultFromFrameAlone ==
    Done => ret = FreshResult(df.data["High"], df.data["Low"], df.data["Close"],
                              df.data["Volume"])
OperationKeepsState ==
    engine # "none" =>
        /\ df' = df
        /\ frame' = frame
        /\ engine' = engine
        /\ initial_capital' = initial_capital
        /\ ta_available' = ta_available

C19_RsiIsSimpleRollingMean ==
    (Done /\ call.op = "rsi_strategy_backtest") =>
        /\ Rsi(close, call.rsi_period, ta_available) = ManualRsi(close, call.rsi_period)
        /\ signals = RsiSignals(ManualRsi(close, call.rsi_period),
                                call.oversold, call.overbought)
        /\ signals = RsiSignals(Rsi(close, call.rsi_period, ~ta_available),
                                call.oversold, call.overbought)

(***************************************************************************)
(* C20: in the crossover strategies, bar i carries long-entry exactly when *)
(* A[i] > B[i] and A[i-1] <= B[i-1], and long-exit exactly when            *)
(* A[i] < B[i] and A[i-1] >= B[i-1], with both series defined at i and     *)
(* i-1; every other bar (bar 0, bars where either series is undefined at i *)
(* or i-1, non-transition bars) carries none, and no bar carries both.     *)
(* A and B are the fast and the slow average, or the MACD and its signal   *)
(* line.                                                                   *)
(***************************************************************************)
SeriesA ==
    IF call.op = "sma_crossover_backtest" THEN Sma(close, call.fast_period)
    ELSE Macd(close, call.fast, call.slow, call.signal).macd
SeriesB ==
    IF call.op = "sma_crossover_backtest" THEN Sma(close, call.slow_period)
    ELSE Macd(close, call.fast, call.slow, call.signal).signal

DefinedAround(a, b, i) ==
    /\ i > 1
    /\ IsFinite(a[i]) /\ IsFinite(b[i]) /\ IsFinite(a[i - 1]) /\ IsFinite(b[i - 1])
(* x > y and x <= y on defined numbers n/d with d > 0 *)
Above2(x, y) == x[1] * y[2] > y[1] * x[2]
EntryAt(a, b, i) ==
    DefinedAround(a, b, i) /\ Above2(a[i], b[i]) /\ ~Above2(a[i - 1], b[i - 1])
ExitAt(a, b, i) ==
    DefinedAround(a, b, i) /\ Above2(b[i], a[i]) /\ ~Above2(b[i - 1], a[i - 1])

SignalsFollow(sig, a, b) ==
    \A i \in 1..Len(sig) :
        /\ sig[i] = 1 <=> EntryAt(a, b, i)
        /\ sig[i] = -1 <=> ExitAt(a, b, i)
        /\ sig[i] = 0 <=> (~EntryAt(a, b, i) /\ ~ExitAt(a, b, i))
        /\ ~(EntryAt(a, b, i) /\ ExitAt(a, b, i))

C20_CrossoverSignalRule ==
    CrossoverDone => SignalsFollow(signals, SeriesA, SeriesB)

(* An SMA crossover run with an entry bar, an exit bar, a first bar where  *)
(* the slow average is undefined, and an entry whose previous bar had the  *)
(* two averages equal.                                                     *)
C20_Witness ==
    /\ CrossoverDone
    /\ call.op = "sma_crossover_backtest"
    /\ IsNaN(SeriesB[1])
    /\ \E i \in Bars : signals[i] = 1 /\ SeriesA[i - 1] = SeriesB[i - 1]
    /\ \E i \in Bars : signals[i] = -1
    /\ SignalsFollow(signals, SeriesA, SeriesB)

(***************************************************************************)
(* C21: in rsi_strategy_backtest, for all threshold values oversold and    *)
(* overbought, every bar whose oscillator value is defined and below       *)
(* oversold carries long-entry, every bar whose value is above overbought  *)
(* carries long-exit, and every other bar (bars with an undefined          *)
(* oscillator value included) carries none.                                *)
(***************************************************************************)
RsiDone == Done /\ call.op = "rsi_strategy_backtest"
Oscillator == Rsi(close, call.rsi_period, ta_available)
(* v < level and v > level on the oscillator's values; an undefined value *)
(* is neither.                                                             *)
BelowLevel(v, level) == IsFinite(v) /\ v[1] < level * v[2]
AboveLevel(v, level) == IsFinite(v) /\ v[1] > level * v[2]

(* The statement on the signals sig of an oscillator osc. *)
EntryBelowExitAbove(sig, osc, oversold, overbought) ==
    \A i \in 1..Len(sig) :
        /\ BelowLevel(osc[i], oversold) => sig[i] = 1
        /\ AboveLevel(osc[i], overbought) => sig[i] = -1
        /\ (~BelowLevel(osc[i], oversold) /\ ~AboveLevel(osc[i], overbought))
              => sig[i] = 0

C21_RsiThresholdSignals ==
    RsiDone => EntryBelowExitAbove(signals, Oscillator, call.oversold, call.overbought)

(* C21 as the code has it: the long-exit is written after the long-entry,  *)
(* so a bar whose value is above overbought carries long-exit whatever     *)
(* else holds; a bar whose value is below oversold and not above           *)
(* overbought carries long-entry; every other bar carries none.  With      *)
(* oversold <= overbought no value is on both sides and the three cases    *)
(* are the ones of the original statement.                                 *)
ExitWins(sig, osc, oversold, overbought) ==
    \A i \in 1..Len(sig) :
        /\ sig[i] = -1 <=> AboveLevel(osc[i], overbought)
        /\ sig[i] = 1 <=> (BelowLevel(osc[i], oversold)
                             /\ ~AboveLevel(osc[i], overbought))
        /\ sig[i] \in {-1, 0, 1}
        /\ (oversold <= overbought) => (sig[i] = 1 <=> BelowLevel(osc[i], oversold))

C21_RsiThresholdSignalsExitWins ==
    RsiDone => ExitWins(signals, Oscillator, call.oversold, call.overbought)

(* A run with oversold above overbought and a bar whose value lies between *)
(* the two (it carries long-exit), next to an undefined bar carrying none. *)
BetweenThresholds(sig, osc, oversold, overbought) ==
    /\ \E i \in 1..Len(sig) : /\ BelowLevel(osc[i], oversold)
                              /\ AboveLevel(osc[i], overbought)
                              /\ sig[i] = -1
    /\ \E i \in 1..Len(sig) : IsNaN(osc[i]) /\ sig[i] = 0
C21_Witness ==
    /\ RsiDone
    /\ call.oversold > call.overbought
    /\ BetweenThresholds(signals, Oscillator, call.oversold, call.overbought)

(***************************************************************************)
(* custom_strategy_backtest(entry_condition, exit_condition).  A predicate *)
(* is given by its truth value per bar; the loop keeps the signals, the    *)
(* position and, for the record, the calls it made of the predicates in    *)
(* the order it made them.  `and` is short-circuit: the entry predicate is *)
(* called only while position = 0, the exit predicate only while           *)
(* position = 1.  The loop runs over range(1, len(self.df)); Python's      *)
(* index i is bar i + 1 of a sequence.                                     *)
(***************************************************************************)
CustomLoopInit == [signals |-> Zeros(Len(close)), position |-> 0, consulted |-> <<>>]

CustomStep(st, i, entry_condition, exit_condition) ==
    IF st.position = 0
    THEN IF entry_condition[i + 1]
         THEN [signals |-> [st.signals EXCEPT ![i + 1] = 1], position |-> 1,
               consulted |-> Append(st.consulted, <<"entry", i>>)]
         ELSE [st EXCEPT !.consulted = Append(st.consulted, <<"entry", i>>)]
    ELSE IF exit_condition[i + 1]
         THEN [signals |-> [st.signals EXCEPT ![i + 1] = -1], position |-> 0,
               consulted |-> Append(st.consulted, <<"exit", i>>)]
         ELSE [st EXCEPT !.consulted = Append(st.consulted, <<"exit", i>>)]

RECURSIVE CustomLoop(_, _, _, _)
CustomLoop(st, i, entry_condition, exit_condition) ==
    IF i >= Len(close) THEN st
    ELSE CustomLoop(CustomStep(st, i, entry_condition, exit_condition), i + 1,
                    entry_condition, exit_condition)

CustomStrategy(entry_condition, exit_condition) ==
    CustomLoop(CustomLoopInit, 1, entry_condition, exit_condition)

CustomStrategyBacktest ==
    \E entry_condition, exit_condition \in SeqsOfLen(BOOLEAN, Len(close)) :
        /\ call' = [op |-> "custom_strategy_backtest",
                    entry_condition |-> entry_condition,
                    exit_condition |-> exit_condition,
                    consulted |-> CustomStrategy(entry_condition, exit_condition).consulted]
        /\ StrategyCall(CustomStrategy(entry_condition, exit_condition).signals)

(* The custom strategy of a BacktestEngine on histories of up to           *)
(* MaxCustomBars bars, under every pair of predicates.                     *)
MaxCustomBars == 3
CustomHistories == UNION {SeqsOfLen(Prices, n) : n \in 1..MaxCustomBars}

InitCustom ==
    /\ \E c \in CustomHistories : Constructed("BacktestEngine", c)
    /\ ta_available = FALSE
    /\ initial_capital = DefaultCapital
    /\ NoService

NextCustom == CustomStrategyBacktest \/ Return

SpecCustom == InitCustom /\ [][NextCustom]_vars

(***************************************************************************)
(* C22: custom_strategy_backtest consults the caller's predicates at every *)
(* bar index of the history, bar 0 included, in strictly increasing index  *)
(* order (the entry predicate while FLAT, the exit predicate while LONG),  *)
(* so the first bar at which the entry predicate holds carries the         *)
(* long-entry signal even when that bar is bar 0.                          *)
(***************************************************************************)
CustomDone == Done /\ call.op = "custom_strategy_backtest"
ConsultedIndices == [k \in 1..Len(call.consulted) |-> call.consulted[k][2]]
FirstEntryBar == MinOfSet({i \in Bars : call.entry_condition[i]})

C22_CustomPredicatesEveryBar ==
    CustomDone =>
        /\ ConsultedIndices = [k \in 1..Len(close) |-> k - 1]
        /\ (\E i \in Bars : call.entry_condition[i]) => signals[FirstEntryBar] = 1

(***************************************************************************)
(* find_support_resistance(window, min_touches).                           *)
(* rolling(window=window, center=True) puts bar i in a window of `window`  *)
(* bars that ends (window - 1) // 2 bars after i; its value is undefined   *)
(* where that window reaches outside the history.                          *)
(***************************************************************************)
CenterOffset(w) == (w - 1) \div 2
CenteredWindow(s, i, w) == SubSeq(s, i + CenterOffset(w) - w + 1, i + CenterOffset(w))
CenteredFull(s, i, w) ==
    /\ i + CenterOffset(w) - w + 1 >= 1
    /\ i + CenterOffset(w) <= Len(s)
RollingCenteredMax(s, w) ==
    [i \in 1..Len(s) |->
        IF CenteredFull(s, i, w) THEN CurveMax(CenteredWindow(s, i, w)) ELSE NaN]
RollingCenteredMin(s, w) ==
    [i \in 1..Len(s) |->
        IF CenteredFull(s, i, w) THEN CurveMin(CenteredWindow(s, i, w)) ELSE NaN]

(* range(window, len(self.df) - window), as bars of a sequence *)
InteriorBars(n, window) == {i \in 1..n : window + 1 <= i /\ i <= n - window}

(* The bars of the loop whose value equals the rolling extreme. *)
Candidates(column, extremes, window) ==
    {i \in InteriorBars(Len(column), window) : Num(column[i]) = extremes[i]}

(* ((column >= level * 0.98) & (column <= level * 1.02)).sum() *)
Touches(column, level) ==
    Cardinality({k \in 1..Len(column) :
                    /\ 100 * column[k] >= 98 * level
                    /\ 100 * column[k] <= 102 * level})

Levels(column, candidates, min_touches) ==
    {column[i] : i \in {c \in candidates : Touches(column, column[c]) >= min_touches}}

RECURSIVE Sorted(_)
Sorted(S) ==
    IF S = {} THEN <<>>
    ELSE LET m == MinOfSet(S) IN <<m>> \o Sorted(S \ {m})
RECURSIVE SortedReverse(_)
SortedReverse(S) ==
    IF S = {} THEN <<>>
    ELSE LET m == CHOOSE x \in S : \A y \in S : y <= x IN <<m>> \o SortedReverse(S \ {m})
(* seq[:5] *)
FirstFive(seq) == SubSeq(seq, 1, IF Len(seq) < 5 THEN Len(seq) ELSE 5)

FindSupportResistanceOf(h, l, resistance, support, min_touches) ==
    [support |-> FirstFive(Sorted(Levels(l, support, min_touches))),
     resistance |-> FirstFive(SortedReverse(Levels(h, resistance, min_touches)))]
FindSupportResistance(h, l, window, min_touches) ==
    FindSupportResistanceOf(h, l,
        Candidates(h, RollingCenteredMax(Nums(h), window), window),
        Candidates(l, RollingCenteredMin(Nums(l), window), window), min_touches)

DefaultMinTouches == 2
MinTouches == {1, DefaultMinTouches}

FindSupportResistanceCall ==
    \E window \in Periods, min_touches \in MinTouches :
        /\ call' = [op |-> "find_support_resistance", window |-> window,
                    min_touches |-> min_touches]
        /\ IndicatorCall(FindSupportResistance(high, low, window, min_touches), TRUE)

(* An AnalysisEngine on a non-empty history serving calls of               *)
(* find_support_resistance.                                                *)
InitLevels ==
    /\ \E c \in Histories : Constructed("AnalysisEngine", c)
    /\ ta_available = FALSE
    /\ initial_capital = DefaultCapital
    /\ NoService

NextLevels == FindSupportResistanceCall \/ Return

SpecLevels == InitLevels /\ [][NextLevels]_vars

(***************************************************************************)
(* C23: find_support_resistance(window, min_touches) treats an interior    *)
(* bar i (window <= i < n - window) as a resistance (support) candidate    *)
(* exactly when its high (low) equals the maximum high (minimum low) over  *)
(* the 2*window + 1 bars i-window..i+window.  With min_touches = 1 every   *)
(* candidate's level is kept, so the returned levels are the candidates'.  *)
(***************************************************************************)
LevelsDone == Done /\ call.op = "find_support_resistance"
Around(i, window) == (i - window)..(i + window)
IsPeak(column, i, window) == \A k \in Around(i, window) : column[k] <= column[i]
IsTrough(column, i, window) == \A k \in Around(i, window) : column[k] >= column[i]
Peaks(column, window) ==
    {i \in InteriorBars(Len(column), window) : IsPeak(column, i, window)}
Troughs(column, window) ==
    {i \in InteriorBars(Len(column), window) : IsTrough(column, i, window)}

C23_CandidatesAreWindowExtremes ==
    LevelsDone =>
        /\ Candidates(high, RollingCenteredMax(Nums(high), call.window), call.window)
              = Peaks(high, call.window)
        /\ Candidates(low, RollingCenteredMin(Nums(low), call.window), call.window)
              = Troughs(low, call.window)
        /\ call.min_touches = 1 =>
              /\ ret.resistance = SortedReverse({high[i] : i \in Peaks(high, call.window)})
              /\ ret.support = Sorted({low[i] : i \in Troughs(low, call.window)})

(***************************************************************************)
(* Backtests on prices a tick apart: a round trip from 20001 to 20002      *)
(* gains 100/20001 percent, less than 0.005 percent.  Histories of up to   *)
(* MaxTickBars bars and a capital of one or two units keep every           *)
(* intermediate quotient within the integers.                              *)
(***************************************************************************)
TickPrices == {20001, 20002, 20003}
MaxTickBars == 2
TickHistories == UNION {SeqsOfLen(TickPrices, n) : n \in 1..MaxTickBars}
TickCapitals == {1, 2}

InitTick ==
    /\ \E c \in TickHistories : Constructed("BacktestEngine", c)
    /\ ta_available = FALSE
    /\ initial_capital \in TickCapitals
    /\ NoService

SpecTick == InitTick /\ [][Next]_vars

(***************************************************************************)
(* C24: in every Trade record returned by a backtest, the win flag is true *)
(* exactly when the record's reported pnl_pct is greater than 0: the flag  *)
(* and the reported, two-decimal pnl_pct never disagree, also for gains or *)
(* losses smaller than 0.005 percent.                                      *)
(***************************************************************************)
C24_WinFlagMatchesReportedPnl ==
    Done =>
        \A k \in 1..Len(ret.trades_detail) :
            ret.trades_detail[k].win <=> Gt(ret.trades_detail[k].pnl_pct, Zero)

(***************************************************************************)
(* C25: for every price history with strictly positive prices and every    *)
(* signal stream, no per-bar strategy return is below -100%, so every      *)
(* defined equity value is >= 0 when the initial capital is positive.      *)
(***************************************************************************)
C25_EquityNeverNegative ==
    (Done /\ PositivePrices /\ initial_capital > 0) =>
        \A i \in Bars :
            /\ IsNaN(ret.returns[i]) \/ Ge(ret.returns[i], Neg(One))
            /\ IsNaN(ret.equity_curve[i]) \/ Ge(ret.equity_curve[i], Zero)

(***************************************************************************)
(* C26: the trade list returned for any signal stream is ordered and       *)
(* non-overlapping: the trade_number values are 1, 2, ..., n in list       *)
(* order, every trade has exit index > entry index (duration >= 1), and    *)
(* each trade's entry index is greater than the previous trade's exit      *)
(* index.                                                                  *)
(***************************************************************************)
C26_TradesOrderedDisjoint ==
    Done =>
        \A k \in 1..Len(ret.trades_detail) :
            LET t == ret.trades_detail[k] IN
            /\ t.trade_number = k
            /\ t.entry_idx # None
            /\ t.exit_idx > t.entry_idx[1]
            /\ t.duration_periods >= 1
            /\ t.duration_periods = t.exit_idx - t.entry_idx[1]
            /\ k > 1 => t.entry_idx[1] > ret.trades_detail[k - 1].exit_idx

(* Two round trips in one history, the second entered on a later bar than  *)
(* the first was left.                                                     *)
C26_Witness ==
    /\ Done
    /\ Len(ret.trades_detail) = 2
    /\ ret.trades_detail[1].trade_number = 1
    /\ ret.trades_detail[2].trade_number = 2
    /\ ret.trades_detail[2].entry_idx[1] > ret.trades_detail[1].exit_idx
    /\ ret.trades_detail[1].exit_idx > ret.trades_detail[1].entry_idx[1]

(***************************************************************************)
(* The web service, src/api.py.  /analyze is a plain `def` endpoint:       *)
(* FastAPI runs each request on a thread of its pool, so requests          *)
(* interleave between any two statements of analyze and get_trader.  A     *)
(* request goes through get_trader (the test of the global, the            *)
(* construction and assignment, the read of the global for the return),    *)
(* then through trader.analyze and the rest of the endpoint.               *)
(***************************************************************************)
(* The engine variables in the specifications of the service. *)
NoEngine ==
    /\ df = DataFrame({}, <<>>)
    /\ ta_available = FALSE
    /\ engine = "none"
    /\ open = <<>>
    /\ high = <<>>
    /\ low = <<>>
    /\ close = <<>>
    /\ volume = <<>>
    /\ initial_capital = DefaultCapital
    /\ pc = "new"
    /\ call = None
    /\ signals = <<>>
    /\ result = <<>>

(* What TraderCodeAct() finds: whether the CodeAct package and the API     *)
(* client import, whether CODEACT_API_BASE is set, and whether             *)
(* CodeActAgent.from_pretrained succeeds.                                  *)
Environments == [package : BOOLEAN, api_client : BOOLEAN, api_base : BOOLEAN,
                 model_loads : BOOLEAN]

(* TraderCodeAct.__init__ with its default arguments: the value of         *)
(* self.use_api it settles on, or the exception it raises.                 *)
UseApi(env) ==
    IF env.api_client /\ env.api_base THEN <<TRUE>>
    ELSE IF env.package THEN <<FALSE>>
    ELSE None
TraderCodeActInit(env) ==
    IF UseApi(env) = None THEN Raised("ImportError")
    ELSE IF UseApi(env)[1] THEN [use_api |-> TRUE]
    ELSE IF env.model_loads THEN [use_api |-> FALSE]
    ELSE Raised("Exception")

MaxRequests == 2
Requests == 1..MaxRequests

At(r, position) == requests[r].pc = position
Goto(r, position) == requests' = [requests EXCEPT ![r].pc = position]
apivars == <<codeact_available, environment, trader_agent, simple_trader, instances>>
others == <<enginevars, platform, files, analysis, session>>

(* analyze, line 129: the request calls get_trader(). *)
GetTrader(r) ==
    /\ At(r, "start")
    /\ Goto(r, IF codeact_available THEN "test_agent" ELSE "test_simple")
    /\ UNCHANGED <<apivars, others>>

(* get_trader, line 57: if _trader_agent is None *)
TestAgent(r) ==
    /\ At(r, "test_agent")
    /\ Goto(r, IF trader_agent = None THEN "init_agent" ELSE "return_agent")
    /\ UNCHANGED <<apivars, others>>

(* line 59: _trader_agent = TraderCodeAct(); an exception of the           *)
(* constructor falls through to SimpleTrader.                              *)
InitAgent(r) ==
    /\ At(r, "init_agent")
    /\ IF TraderCodeActInit(environment) \in {Raised("ImportError"), Raised("Exception")}
       THEN /\ Goto(r, "test_simple")
            /\ UNCHANGED <<trader_agent, instances>>
       ELSE /\ instances' = Append(instances, "TraderCodeAct")
            /\ trader_agent' = <<Len(instances) + 1>>
            /\ Goto(r, "return_agent")
    /\ UNCHANGED <<codeact_available, environment, simple_trader, others>>

(* line 60: return _trader_agent *)
ReturnAgent(r) ==
    /\ At(r, "return_agent")
    /\ requests' = [requests EXCEPT ![r].pc = "analyze", ![r].trader = trader_agent]
    /\ UNCHANGED <<apivars, others>>

(* line 66: if _simple_trader is None *)
TestSimple(r) ==
    /\ At(r, "test_simple")
    /\ Goto(r, IF simple_trader = None THEN "init_simple" ELSE "return_simple")
    /\ UNCHANGED <<apivars, others>>

(* line 68: _simple_trader = SimpleTrader() *)
InitSimple(r) ==
    /\ At(r, "init_simple")
    /\ instances' = Append(instances, "SimpleTrader")
    /\ simple_trader' = <<Len(instances) + 1>>
    /\ Goto(r, "return_simple")
    /\ UNCHANGED <<codeact_available, environment, trader_agent, others>>

(* line 69: return _simple_trader *)
ReturnSimple(r) ==
    /\ At(r, "return_simple")
    /\ requests' = [requests EXCEPT ![r].pc = "analyze", ![r].trader = simple_trader]
    /\ UNCHANGED <<apivars, others>>

(* analyze, lines 132-163: trader.analyze returns a dict, with or without  *)
(* an "error" key; the mode is added to it; a dict with an error becomes   *)
(* an HTTP 500, any other is the response.                                 *)
Mode == IF codeact_available THEN "codeact" ELSE "simple"
Response(failed) ==
    IF failed THEN [status |-> 500] ELSE [status |-> 200, mode |-> Mode]
Respond(r) ==
    /\ At(r, "analyze")
    /\ \E failed \in BOOLEAN :
          requests' = [requests EXCEPT ![r].pc = "done",
                                       ![r].response = <<Response(failed)>>]
    /\ UNCHANGED <<apivars, others>>

NewRequest == [pc |-> "start", trader |-> None, response |-> None]

InitApi ==
    /\ NoEngine
    /\ codeact_available \in BOOLEAN
    /\ environment \in Environments
    /\ trader_agent = None
    /\ simple_trader = None
    /\ instances = <<>>
    /\ requests = [r \in Requests |-> NewRequest]
    /\ platform = "posix"
    /\ files = {}
    /\ analysis = <<>>
    /\ session = None

NextApi ==
    \E r \in Requests :
        \/ GetTrader(r) \/ TestAgent(r) \/ InitAgent(r) \/ ReturnAgent(r)
        \/ TestSimple(r) \/ InitSimple(r) \/ ReturnSimple(r) \/ Respond(r)

SpecApi == InitApi /\ [][NextApi]_vars

(***************************************************************************)
(* C27: for every /analyze request that returns a result, the reported     *)
(* "mode" field is "codeact" exactly when the request was served by a      *)
(* TraderCodeAct instance, and "simple" exactly when it was served by      *)
(* SimpleTrader (also when CodeAct initialization failed and get_trader    *)
(* fell back to SimpleTrader).                                             *)
(***************************************************************************)
Answered(r) == requests[r].pc = "done" /\ requests[r].response[1].status = 200
ServedBy(r) == instances[requests[r].trader[1]]

C27_ModeNamesServingTrader ==
    \A r \in Requests :
        Answered(r) =>
            /\ requests[r].response[1].mode = "codeact" <=> ServedBy(r) = "TraderCodeAct"
            /\ requests[r].response[1].mode = "simple" <=> ServedBy(r) = "SimpleTrader"

(***************************************************************************)
(* C28: under any interleaving of concurrent /analyze requests, get_trader *)
(* constructs at most one TraderCodeAct instance and at most one           *)
(* SimpleTrader instance during the life of the process, and all requests  *)
(* that use the same trader kind receive the same instance.                *)
(***************************************************************************)
Constructions(class) == {k \in 1..Len(instances) : instances[k] = class}
HasTrader(r) == requests[r].trader # None

C28_OneInstancePerKind ==
    /\ Cardinality(Constructions("TraderCodeAct")) <= 1
    /\ Cardinality(Constructions("SimpleTrader")) <= 1
    /\ \A r1, r2 \in Requests :
          (HasTrader(r1) /\ HasTrader(r2) /\ ServedBy(r1) = ServedBy(r2))
              => requests[r1].trader = requests[r2].trader

(***************************************************************************)
(* TraderCodeAct.analyze, src/finbytes/codeact_trader.py.  A call takes    *)
(* one of six paths through the try block: fetch_ohlc_data raises;         *)
(* NamedTemporaryFile raises; df.to_csv raises, after the file was created *)
(* and before tmp_csv.close(); the agent or the API call raises;           *)
(* _parse_output finds no JSON and returns a dict with an "error" key; or  *)
(* the analysis succeeds.  The finally block then unlinks the file if      *)
(* tmp_csv is set and the file exists, and swallows a failure of           *)
(* os.unlink.  The temporary file is opened without delete sharing: on a   *)
(* POSIX host os.unlink removes it whether or not the handle is still      *)
(* open, on an NT host it raises PermissionError while the handle is open. *)
(***************************************************************************)
Paths == {"fetch_failed", "create_failed", "write_failed", "agent_failed",
          "parse_failed", "success"}
Platforms == {"posix", "nt"}

(* Whether os.unlink removes the file. *)
Unlink(host, handle_open) == ~(host = "nt" /\ handle_open)

AnalyzeOf(path, name, created, closed, host) ==
    [path |-> path,
     tmp_csv |-> IF created THEN <<name>> ELSE None,
     closed |-> closed,
     removed |-> created /\ Unlink(host, ~closed),
     returned |-> IF path = "success" THEN "result" ELSE "error"]
Analyze(path, name, host) ==
    AnalyzeOf(path, name, path \notin {"fetch_failed", "create_failed"},
              path \notin {"fetch_failed", "create_failed", "write_failed"}, host)

MaxAnalyses == 3

TraderCodeActAnalyze ==
    /\ Len(analysis) < MaxAnalyses
    /\ \E path \in Paths :
          LET done == Analyze(path, Len(analysis) + 1, platform) IN
          /\ analysis' = Append(analysis, done)
          /\ files' = IF done.tmp_csv # None /\ ~done.removed
                      THEN files \cup {done.tmp_csv[1]} ELSE files
    /\ UNCHANGED <<enginevars, apivars, requests, platform, session>>

InitTrader ==
    /\ NoEngine
    /\ codeact_available = TRUE
    /\ environment \in {e \in Environments : UseApi(e) # None /\ e.model_loads}
    /\ trader_agent = None
    /\ simple_trader = None
    /\ instances = <<>>
    /\ requests = <<>>
    /\ platform \in Platforms
    /\ files = {}
    /\ analysis = <<>>
    /\ session = None

SpecTrader == InitTrader /\ [][TraderCodeActAnalyze]_vars

(***************************************************************************)
(* C29: every call of TraderCodeAct.analyze that created a temporary CSV   *)
(* file has removed that file by the time it returns, on every path:       *)
(* successful analysis, failure while writing the CSV, failure of the      *)
(* agent/API call, and failure to parse the agent output.                  *)
(***************************************************************************)
C29_TempFileRemoved ==
    \A k \in 1..Len(analysis) :
        analysis[k].tmp_csv # None =>
            /\ analysis[k].removed
            /\ analysis[k].tmp_csv[1] \notin files

(***************************************************************************)
(* CodeActAPIClient.run_interactive, src/finbytes/codeact_api_client.py.   *)
(* A text is a sequence of tokens: the fence of a Python block, a plain    *)
(* fence, a piece of code or prose, and white space.  The plain fence      *)
(* (three backquotes) is a prefix of the Python fence (three backquotes    *)
(* and the word python), so a search for the plain fence finds both.       *)
(***************************************************************************)
Tokens == {"fence_python", "fence", "code", " "}
MaxTokens == 3
Texts == UNION {SeqsOfLen(Tokens, n) : n \in 0..MaxTokens}

IsPythonFence(token) == token = "fence_python"
IsFence(token) == token \in {"fence_python", "fence"}

(* Whether the text contains a Python fence, and any fence. *)
HasPythonFence(text) == \E i \in 1..Len(text) : IsPythonFence(text[i])
HasFence(text) == \E i \in 1..Len(text) : IsFence(text[i])

(* text.find(...) + len(...): the position after the first such fence *)
AfterPythonFence(text) == MinOfSet({i \in 1..Len(text) : IsPythonFence(text[i])}) + 1
AfterFence(text) == MinOfSet({i \in 1..Len(text) : IsFence(text[i])}) + 1
(* text.find(fence, start): the position of the next fence, -1 if none *)
FindFence(text, start) ==
    IF \E j \in start..Len(text) : IsFence(text[j])
    THEN MinOfSet({j \in start..Len(text) : IsFence(text[j])})
    ELSE -1

(* str.strip() *)
RECURSIVE Strip(_)
Strip(text) ==
    IF text = <<>> THEN text
    ELSE IF Head(text) = " " THEN Strip(Tail(text))
    ELSE IF text[Len(text)] = " " THEN Strip(SubSeq(text, 1, Len(text) - 1))
    ELSE text

(* text[start:end].strip() if end > start, else None *)
Between(text, start, end) ==
    IF end > start THEN <<Strip(SubSeq(text, start, end - 1))>> ELSE None

(* _extract_code: None, or <<code>> *)
ExtractCode(text) ==
    IF HasPythonFence(text)
    THEN Between(text, AfterPythonFence(text), FindFence(text, AfterPythonFence(text)))
    ELSE IF HasFence(text)
    THEN Between(text, AfterFence(text), FindFence(text, AfterFence(text)))
    ELSE None

(* `if code`: neither None nor the empty string *)
Truthy(code) == code # None /\ code[1] # <<>>

(* What the execution engine answers: with or without a session id. *)
ExecResults == {[output |-> "ok"], [output |-> "ok", session_id |-> "s"],
                [error |-> "failed"]}
FormatExecutionResult(exec_result) ==
    IF "error" \in DOMAIN exec_result THEN <<"Error: ", exec_result.error>>
    ELSE <<exec_result.output>>

Message(role, content) == [role |-> role, content |-> content]


(***************************************************************************)
(* The loop of run_interactive.  session holds the locals of the call      *)
(* (messages, session_id, iteration, assistant_message, which has no value *)
(* before the first reply), the numbers of chat requests and of code       *)
(* executions made, and what the call returned or raised.                  *)
(***************************************************************************)
MaxIterations == 2
clientvars == <<enginevars, apivars, requests, platform, files, analysis>>

(* The call, lines 124-130. *)
RunInteractive ==
    /\ session.pc \in {"idle", "returned", "raised"}
    /\ \E max_iterations \in 0..MaxIterations :
          session' = [pc |-> "loop",
                      max_iterations |-> max_iterations,
                      messages |-> <<Message("system", "system_prompt"),
                                     Message("user", "user_query")>>,
                      session_id |-> None,
                      iteration |-> 0,
                      assistant_message |-> None,
                      chats |-> 0,
                      executions |-> 0]
    /\ UNCHANGED clientvars

(* One pass of the loop body on the model's reply, lines 133-170. *)
Executed(s, reply, exec_result) ==
    [s EXCEPT !.iteration = @ + 1,
              !.chats = @ + 1,
              !.assistant_message = <<reply>>,
              !.messages = Append(Append(@, Message("assistant", reply)),
                                  Message("user", FormatExecutionResult(exec_result))),
              !.session_id = IF "session_id" \in DOMAIN exec_result
                             THEN <<exec_result.session_id>> ELSE @,
              !.executions = @ + 1]
Broke(s, reply) ==
    [s EXCEPT !.iteration = @ + 1,
              !.chats = @ + 1,
              !.assistant_message = <<reply>>,
              !.messages = Append(@, Message("assistant", reply)),
              !.pc = "break"]

Iterate ==
    /\ session.pc = "loop"
    /\ session.iteration < session.max_iterations
    /\ \E reply \in Texts :
          IF HasFence(reply) /\ Truthy(ExtractCode(reply))
          THEN \E exec_result \in ExecResults :
                  session' = Executed(session, reply, exec_result)
          ELSE session' = Broke(session, reply)
    /\ UNCHANGED clientvars

(* The return, lines 172-176, after a break or when the loop condition is  *)
(* false; reading assistant_message before any reply has set it raises     *)
(* UnboundLocalError.                                                      *)
Returned(s) ==
    IF s.assistant_message = None THEN Raised("UnboundLocalError")
    ELSE [final_response |-> s.assistant_message[1],
          messages |-> s.messages,
          iterations |-> s.iteration]
Finish ==
    /\ \/ session.pc = "break"
       \/ session.pc = "loop" /\ session.iteration >= session.max_iterations
    /\ session' = [pc |-> IF session.assistant_message = None THEN "raised"
                          ELSE "returned",
                   max_iterations |-> session.max_iterations,
                   chats |-> session.chats,
                   executions |-> session.executions,
                   returned |-> Returned(session)]
    /\ UNCHANGED clientvars

InitClient ==
    /\ NoEngine
    /\ codeact_available = TRUE
    /\ environment = [package |-> FALSE, api_client |-> TRUE, api_base |-> TRUE,
                      model_loads |-> FALSE]
    /\ trader_agent = None
    /\ simple_trader = None
    /\ instances = <<>>
    /\ requests = <<>>
    /\ platform = "posix"
    /\ files = {}
    /\ analysis = <<>>
    /\ session = [pc |-> "idle"]

NextClient == RunInteractive \/ Iterate \/ Finish

SpecClient == InitClient /\ [][NextClient]_vars

(***************************************************************************)
(* C30: for every value of max_iterations (0 included) and every sequence  *)
(* of model replies, run_interactive terminates after at most              *)
(* max_iterations chat requests and at most one code execution per chat    *)
(* request, and returns a result whose final_response is the content of    *)
(* the last assistant message in the returned messages and whose           *)
(* iterations equals the number of chat requests made.                     *)
(***************************************************************************)
AssistantMessages(messages) ==
    {k \in 1..Len(messages) : messages[k].role = "assistant"}
LastAssistant(messages) ==
    CHOOSE k \in AssistantMessages(messages) :
        \A j \in AssistantMessages(messages) : j <= k

C30_RunInteractiveReturns ==
    /\ session.pc # "idle" =>
          /\ session.chats <= session.max_iterations
          /\ session.executions <= session.chats
    /\ session.pc # "raised"
    /\ session.pc = "returned" =>
          /\ AssistantMessages(session.returned.messages) # {}
          /\ session.returned.final_response =
                session.returned.messages[LastAssistant(session.returned.messages)].content
          /\ session.returned.iterations = session.chats

=============================================================================
